---- MODULE Spec2Model ----
(***************************************************************************)
(* The concurrency runtime of linda-engine:                                *)
(*   abbey   - the worker pool ("monks") and its task slots (abbey.c)      *)
(*   ptreaty - sync channels built on mutexes and condition variables      *)
(*   poseta  - the precedence wrappers around two dispatched tasks          *)
(*   tcpip   - the mailbox (push / pop) of the message layer                *)
(* Each part has its own specification over its own variables.             *)
(***************************************************************************)
EXTENDS Integers, Sequences, FiniteSets, TLC

(***************************************************************************)
(* abbey.c                                                                 *)
(***************************************************************************)
VARIABLES
    task,                 \* Task *task: slot index -> [state, func, context]
    nofTasks,             \* int nofTasks
    nofMonks,             \* int nofMonks
    dedicatedTaskBuffer,  \* int dedicatedTaskBuffer
    amountOfMonksBusy,    \* int amountOfMonksBusy (read and written without the lock)
    abbeyMutex,           \* the set holding the owner of abbeyMutex; {} when it is free
    abbeyCond,            \* threads blocked in pthread_cond_wait(&abbeyCond, ..)
    pc,                   \* position of every thread of the pool and of the dispatcher
    taskId,               \* per thread: the slot index its scan picked
    tmp,                  \* per monk: the value read by amountOfMonksBusy++ / --
    cur,                  \* per monk: the context the running function was called with
    next,                 \* the job the dispatcher hands over next
    monks,                \* the worker threads that were started
    growths,              \* successful reallocations of the task buffer
    aborted,              \* the process died in a call through an indeterminate pointer
    invoked,              \* per job: how often its function (f0 of a tuple) was invoked
    invoked1,             \* how often f1 of the tuple job was invoked
    allBusyAt,            \* nofMonks at the last instant every worker was seen executing
    monksAtLaterStart     \* nofMonks when the first function was invoked after the first such instant

abbeyVars == <<task, nofTasks, nofMonks, dedicatedTaskBuffer, amountOfMonksBusy,
               abbeyMutex, abbeyCond, pc, taskId, tmp, cur, next, monks, growths,
               aborted, invoked, invoked1, allBusyAt, monksAtLaterStart>>

(***************************************************************************)
(* ptreaty.c, poseta.c, flinda.c: two sync channels and the threads on them *)
(***************************************************************************)
VARIABLES
    request,              \* per channel: the set holding the owner of st->request
    baton,                \* per channel: the set holding the owner of st->baton
    predicate,            \* per channel: uint8_t st->predicate
    signal,               \* per channel: threads blocked in pthread_cond_wait(st->signal, ..)
    tpc,                  \* position of every thread that uses a channel
    ack,                  \* per channel: the threads blocked on st->ack
    incs,                 \* per channel: how many times st->predicate++ ran
    waits,                \* per channel: how many times ptreaty_wait returned
    onceReturns,          \* how many times ptreaty_make_m_run_once returned
    acks,                 \* how many times ptreaty_has_run was called
    spurious,             \* the threads whose wait on st->signal ended unsignalled
    nxReturns             \* how many times ptreaty_make_m_run_nx returned

treatyVars == <<request, baton, predicate, signal, tpc, ack, incs, waits, onceReturns,
                acks, spurious, nxReturns>>

(***************************************************************************)
(* tcpip.c: one mailbox and the threads that push to it and pop from it     *)
(***************************************************************************)
VARIABLES
    first,                \* M->first
    last,                 \* M->last
    msgNext,              \* per message: m->next
    lock,                 \* the set holding the owner of M->lock; {} when it is free
    mpc,                  \* position of every thread that uses the mailbox
    arg,                  \* per thread: the parameter m of push / the local m of pop
    ret,                  \* per thread: what its last pop returned
    allocated,            \* the messages allocated so far
    pops,                 \* the pop calls made so far
    segv,                 \* the process died dereferencing NULL
    applied,              \* the pushed messages in the order their pushes took the lock
    popped,               \* the messages pops took out, in the order they took them
    snap,                 \* the mailbox as the pop that holds the lock found it
    emptyPopAt            \* Len(applied) at the last pop that returned NULL, or -1

mailboxVars == <<first, last, msgNext, lock, mpc, arg, ret, allocated, pops, segv,
                 applied, popped, snap, emptyPopAt>>

(***************************************************************************)
(* poseta.c: the registry of conditions and dispatch_poseta_task            *)
(***************************************************************************)
VARIABLES
    cond,                 \* posconf->cond: the linked list of conditions, head first
    regCalls,             \* the poseta_func1_if_func0 calls made so far
    dispatches,           \* the dispatch_poseta_task calls made so far
    queued,               \* the (func, context) pairs handed to dispatch_described_task
    regCrashed,           \* the process died dereferencing NULL
    registered,           \* per function: role and channel of its first registration
    reRegistered,         \* some call named a function that was registered already
    lastCall,             \* the arguments of the last dispatch_poseta_task call
    wrapperRuns           \* per queued pair: the context of its dispatch_poseta_task
                          \* call and the context its wrapper passed to the function

registryVars == <<cond, regCalls, dispatches, queued, regCrashed, registered,
                  reRegistered, lastCall, wrapperRuns>>

(***************************************************************************)
(* tcpip.c: the listening task of one socket and the tasks it dispatches   *)
(***************************************************************************)
VARIABLES
    ltasks,               \* per task function: its dispatched tasks no monk has taken yet
    lpc,                  \* per invocation of tcpip_retrieve_packets: its position
    callbackIn,           \* tcpSocket->callbackIn: registered or NULL
    trials,               \* tcpSocket->trials
    appStarted,           \* the application dispatched tcpip_start for the socket
    units,                \* invocations of tcpip_retrieve_packets begun so far
    doubleRuns,           \* listening tasks that two monks took at once
    recvErrors,           \* first recv calls that returned -1 or 0
    logged,               \* of those, the ones a tprintf reported
    restarts,             \* dispatches of tcpip_start by tcpip_retrieve_packets
    pushes,               \* push(tcpSocket->inbox, msg) calls
    callbackDispatches    \* dispatch_task(tcpSocket->callbackIn, context) calls

listenerVars == <<ltasks, lpc, callbackIn, trials, appStarted, units, doubleRuns,
                  recvErrors, logged, restarts, pushes, callbackDispatches>>

(***************************************************************************)
(* tcpip.c: two mailboxes and the operations push, pop, count and move     *)
(***************************************************************************)
VARIABLES
    boxFirst,             \* per mailbox: M->first
    boxLast,              \* per mailbox: M->last
    boxNext,              \* per message: m->next
    boxLock,              \* per mailbox: the owner of *M->lock
    bpc,                  \* per thread: its position in push, pop, count or move
    bsrc,                 \* per thread: the argument M (Msrc of move)
    bdest,                \* per thread: the argument Mdest of move
    bm,                   \* per thread: the local / argument m
    bresult,              \* per thread: the local result of count
    boxPushed,            \* the messages a push has taken into a mailbox so far
    boxPopped,            \* the messages pop is due to return so far
    boxSegv,              \* a NULL pointer was dereferenced
    boxIdeal,             \* per mailbox: its messages if every operation took one step
    bexpect,              \* per thread: the message a one-step pop / move takes
    bsnap                 \* per thread in move: the fields when it got both locks

moveVars == <<boxFirst, boxLast, boxNext, boxLock, bpc, bsrc, bdest, bm, bresult,
              boxPushed, boxPopped, boxSegv, boxIdeal, bexpect, bsnap>>

(***************************************************************************)
(* tcpip.c: the outbox of one socket and its send tasks                    *)
(***************************************************************************)
VARIABLES
    outbox,               \* the messages of tcpSocket->outbox, head first
    sendTasks,            \* dispatched tcpip_send_packets tasks no monk has taken yet
    gpc,                  \* the application: before its push or before its dispatch
    outPushes,            \* completed push(outbox, msg) calls
    spc,                  \* per invocation of tcpip_send_packets: its position
    smsg,                 \* per invocation: the local msg
    outPops,              \* pop(tcpSocket->outbox) calls of send tasks
    emptyPops,            \* of those, the ones that returned NULL
    sendSegv,             \* a NULL pointer was dereferenced
    sendDoubleRuns        \* send tasks that two monks took at once

sendVars == <<outbox, sendTasks, gpc, outPushes, spc, smsg, outPops, emptyPops,
              sendSegv, sendDoubleRuns>>

(***************************************************************************)
(* abbey.c and poseta.c: a pair of wrappers on a pool of monks             *)
(***************************************************************************)
VARIABLES
    poolMonks,            \* nofMonks; 0 before initialize_abbey
    poolQueue,            \* the dispatched wrappers no monk has taken, lowest slot first
    ppc,                  \* per wrapper: its position
    preq,                 \* the owner of *pt0->st->request
    pbat,                 \* the owner of *pt0->st->baton
    psig                  \* the threads blocked on *pt0->st->signal

poolVars == <<poolMonks, poolQueue, ppc, preq, pbat, psig>>

outsideAbbey == <<treatyVars, mailboxVars, registryVars, listenerVars, moveVars, sendVars, poolVars>>
outsideTreaty == <<abbeyVars, mailboxVars, registryVars, listenerVars, moveVars, sendVars, poolVars>>
outsideMailbox == <<abbeyVars, treatyVars, registryVars, listenerVars, moveVars, sendVars, poolVars>>
outsideRegistry == <<abbeyVars, treatyVars, mailboxVars, listenerVars, moveVars, sendVars, poolVars>>
outsideListener == <<abbeyVars, treatyVars, mailboxVars, registryVars, moveVars, sendVars, poolVars>>
outsideMove == <<abbeyVars, treatyVars, mailboxVars, registryVars, listenerVars, sendVars, poolVars>>
outsideSend == <<abbeyVars, treatyVars, mailboxVars, registryVars, listenerVars,
                moveVars, poolVars>>
outsidePool == <<abbeyVars, treatyVars, mailboxVars, registryVars, listenerVars,
                moveVars, sendVars>>

TS_READY == 0
TS_CREATING == 1
TS_OPEN == 2
TS_BUSY == 3
\* a state value that is none of the four (an indeterminate int)
TS_GARBAGE == 4
\* static int taskBufferContent = 4
taskBufferContent == 4
\* static int dedicatedTaskBuffer = 2
ReservedSlots == 2

\* initialize_abbey(InitMonks, InitTasks)
InitMonks == 1
InitTasks == 3
\* number of dispatch_described_task calls the dispatcher makes
NJobs == 4
\* realloc succeeds at most this often for the task buffer / up to this pool size
MaxGrowths == 1
MaxMonks == 2

Main == 0
MonkIds == 1..MaxMonks
Threads == {Main} \cup MonkIds
NoSlot == -1
NoFunc == "NULL"
Garbage == "garbage"
\* a context that names no job: NULL, or whatever realloc left there
NoJob == 0
Jobs == 1..NJobs
\* the job dispatched with dispatch_tuple_task
TupleJob == 1

\* the function a job is dispatched with; its context is the job itself
JobFunc(j) == IF j = TupleJob THEN "tuple_task" ELSE "task"

\* what the memory added by realloc may hold
UninitStates == {TS_READY, TS_OPEN, TS_GARBAGE}
UninitTask == {[state |-> s, func |-> Garbage, context |-> NoJob] : s \in UninitStates}

mayFail(t) == t # Main
WantState(t) == IF t = Main THEN TS_READY ELSE TS_OPEN
NewState(t) == IF t = Main THEN TS_CREATING ELSE TS_BUSY

\* for(i = dedicatedTaskBuffer; i < nofTasks; i++) if(task[i].state == state)
FirstMatch(state) ==
    LET hits == {i \in dedicatedTaskBuffer..(nofTasks - 1) : task[i].state = state}
    IN  IF hits = {} THEN NoSlot ELSE CHOOSE i \in hits : \A k \in hits : i <= k

\* pthread_mutex_unlock(&abbeyMutex) by thread t: a thread that does not hold the
\* mutex either releases it all the same or leaves it alone
UnlockOutcomes(t) == IF abbeyMutex = {t} THEN {{}} ELSE {{}, abbeyMutex}

\* pthread_cond_broadcast(&abbeyCond): every waiter goes on to re-acquire the mutex
WakeAll(p) == [t \in Threads |-> IF t \in abbeyCond THEN "lock" ELSE p[t]]

AbbeyInit ==
    /\ task = [i \in 0..(InitTasks - 1) |->
                 [state |-> TS_READY, func |-> NoFunc, context |-> NoJob]]
    /\ nofTasks = InitTasks
    /\ nofMonks = InitMonks
    /\ dedicatedTaskBuffer = ReservedSlots
    /\ amountOfMonksBusy = 0
    /\ abbeyMutex = {}
    /\ abbeyCond = {}
    /\ monks = 1..InitMonks
    /\ pc = [t \in Threads |-> IF t = Main \/ t \in 1..InitMonks THEN "lock" ELSE "none"]
    /\ taskId = [t \in Threads |-> NoSlot]
    /\ tmp = [t \in Threads |-> 0]
    /\ cur = [t \in Threads |-> NoJob]
    /\ next = 1
    /\ growths = 0
    /\ aborted = FALSE
    /\ invoked = [j \in Jobs |-> 0]
    /\ invoked1 = 0
    /\ allBusyAt = 0
    /\ monksAtLaterStart = 0

\* pthread_mutex_lock(&abbeyMutex) at the head of find_task_and_change_state (and
\* the re-acquisition at the end of pthread_cond_wait), followed by the for loop over
\* the slots; a monk that finds nothing goes into pthread_cond_wait at once
FindLock(t) ==
    /\ ~aborted /\ pc[t] = "lock" /\ abbeyMutex = {}
    /\ LET i == FirstMatch(WantState(t))
       IN  IF i # NoSlot
           THEN /\ taskId' = [taskId EXCEPT ![t] = i]
                /\ pc' = [pc EXCEPT ![t] = "claim"]
                /\ abbeyMutex' = {t}
                /\ UNCHANGED abbeyCond
           ELSE IF mayFail(t)
           THEN /\ abbeyCond' = abbeyCond \cup {t}
                /\ pc' = [pc EXCEPT ![t] = "wait"]
                /\ UNCHANGED <<taskId, abbeyMutex>>
           ELSE /\ pc' = [pc EXCEPT ![t] = "nomatch"]
                /\ abbeyMutex' = {t}
                /\ UNCHANGED <<taskId, abbeyCond>>
    /\ UNCHANGED <<task, nofTasks, nofMonks, dedicatedTaskBuffer, amountOfMonksBusy,
                   tmp, cur, next, monks, growths, aborted,
                   invoked, invoked1, allBusyAt, monksAtLaterStart>>
    /\ UNCHANGED outsideAbbey

\* the for loop over the slots when the while(true) loop comes round again after
\* increaseTaskBuffer: the mutex is not taken again
FindScan(t) ==
    /\ ~aborted /\ pc[t] = "scan"
    /\ LET i == FirstMatch(WantState(t))
       IN  IF i # NoSlot
           THEN /\ taskId' = [taskId EXCEPT ![t] = i]
                /\ pc' = [pc EXCEPT ![t] = "claim"]
           ELSE /\ pc' = [pc EXCEPT ![t] = "nomatch"]
                /\ UNCHANGED taskId
    /\ UNCHANGED <<task, nofTasks, nofMonks, dedicatedTaskBuffer, amountOfMonksBusy,
                   abbeyMutex, abbeyCond, tmp, cur, next, monks, growths, aborted,
                   invoked, invoked1, allBusyAt, monksAtLaterStart>>
    /\ UNCHANGED outsideAbbey

\* task[i].state = newState; broadcast; unlock; return i
FindClaim(t) ==
    /\ ~aborted /\ pc[t] = "claim"
    /\ task' = [task EXCEPT ![taskId[t]].state = NewState(t)]
    /\ abbeyCond' = {}
    /\ abbeyMutex' \in UnlockOutcomes(t)
    /\ pc' = [WakeAll(pc) EXCEPT ![t] = IF t = Main THEN "fill" ELSE "inc_read"]
    /\ UNCHANGED <<nofTasks, nofMonks, dedicatedTaskBuffer, amountOfMonksBusy,
                   taskId, tmp, cur, next, monks, growths, aborted,
                   invoked, invoked1, allBusyAt, monksAtLaterStart>>
    /\ UNCHANGED outsideAbbey

\* if(mayFail || !dedicatedTaskBuffer) pthread_cond_wait(..) else dedicatedTaskBuffer = 0
FindNoMatch(t) ==
    /\ ~aborted /\ pc[t] = "nomatch"
    /\ IF mayFail(t) \/ dedicatedTaskBuffer = 0
       THEN /\ abbeyCond' = abbeyCond \cup {t}
            /\ abbeyMutex' \in UnlockOutcomes(t)
            /\ pc' = [pc EXCEPT ![t] = "wait"]
            /\ UNCHANGED dedicatedTaskBuffer
       ELSE /\ dedicatedTaskBuffer' = 0
            /\ pc' = [pc EXCEPT ![t] = "grow"]
            /\ UNCHANGED <<abbeyCond, abbeyMutex>>
    /\ UNCHANGED <<task, nofTasks, nofMonks, amountOfMonksBusy, taskId, tmp, cur,
                   next, monks, growths, aborted, invoked, invoked1, allBusyAt,
                   monksAtLaterStart>>
    /\ UNCHANGED outsideAbbey

\* increaseTaskBuffer(taskBuffer) and the pthread_mutex_unlock that follows it; the
\* loop then scans again without taking the mutex. realloc gives the old array back:
\* a monk that has loaded its address for the call of line 236 is left with it
increaseTaskBuffer(t) ==
    /\ ~aborted /\ pc[t] = "grow"
    /\ \/ /\ growths < MaxGrowths
          /\ \E fresh \in UninitTask :
                task' = [i \in 0..(nofTasks + taskBufferContent - 1) |->
                           IF i < nofTasks THEN task[i] ELSE fresh]
          /\ nofTasks' = nofTasks + taskBufferContent
          /\ dedicatedTaskBuffer' = ReservedSlots
          /\ growths' = growths + 1
       \/ \* realloc returned NULL
          /\ UNCHANGED <<task, nofTasks, dedicatedTaskBuffer, growths>>
    /\ abbeyMutex' \in UnlockOutcomes(t)
    /\ pc' = [u \in Threads |->
                IF u = t THEN "scan"
                ELSE IF nofTasks' # nofTasks /\ pc[u] = "deref" THEN "deref_stale"
                ELSE pc[u]]
    /\ UNCHANGED <<nofMonks, amountOfMonksBusy, abbeyCond, taskId, tmp, cur, next,
                   monks, aborted, invoked, invoked1, allBusyAt, monksAtLaterStart>>
    /\ UNCHANGED outsideAbbey

\* a pthread_cond_wait that returns although nobody signalled
SpuriousWakeup(t) ==
    /\ ~aborted /\ pc[t] = "wait" /\ t \in abbeyCond
    /\ abbeyCond' = abbeyCond \ {t}
    /\ pc' = [pc EXCEPT ![t] = "lock"]
    /\ UNCHANGED <<task, nofTasks, nofMonks, dedicatedTaskBuffer, amountOfMonksBusy,
                   abbeyMutex, taskId, tmp, cur, next, monks, growths, aborted,
                   invoked, invoked1, allBusyAt, monksAtLaterStart>>
    /\ UNCHANGED outsideAbbey

\* dispatch_described_task: task[taskId].context = context; task[taskId].func = func
DispatchFill ==
    /\ ~aborted /\ pc[Main] = "fill"
    /\ task' = [task EXCEPT ![taskId[Main]].func = JobFunc(next),
                            ![taskId[Main]].context = next]
    /\ pc' = [pc EXCEPT ![Main] = "open"]
    /\ UNCHANGED <<nofTasks, nofMonks, dedicatedTaskBuffer, amountOfMonksBusy,
                   abbeyMutex, abbeyCond, taskId, tmp, cur, next, monks, growths,
                   aborted, invoked, invoked1, allBusyAt, monksAtLaterStart>>
    /\ UNCHANGED outsideAbbey

\* set_task_state(taskId, state): lock; task[taskId].state = state; broadcast; unlock.
\* `holder` is who has the mutex when the step ends: nobody, or the monk that locks
\* it again at once for its check of amountOfMonksBusy
set_task_state(t, state, to, holder) ==
    /\ abbeyMutex = {}
    /\ task' = [task EXCEPT ![taskId[t]].state = state]
    /\ abbeyCond' = {}
    /\ pc' = [WakeAll(pc) EXCEPT ![t] = to]
    /\ abbeyMutex' = holder

\* dispatch_described_task: return 0
DispatchResult == 0

\* dispatch_described_task: set_task_state(taskId, TS_OPEN); return
DispatchOpen ==
    /\ ~aborted /\ pc[Main] = "open"
    /\ set_task_state(Main, TS_OPEN, IF next = NJobs THEN "done" ELSE "lock", {})
    /\ next' = next + 1
    /\ taskId' = [taskId EXCEPT ![Main] = NoSlot]
    /\ UNCHANGED <<nofTasks, nofMonks, dedicatedTaskBuffer, amountOfMonksBusy,
                   tmp, cur, monks, growths, aborted,
                   invoked, invoked1, allBusyAt, monksAtLaterStart>>
    /\ UNCHANGED outsideAbbey

\* monk: amountOfMonksBusy++ (the load)
MonkIncRead(m) ==
    /\ ~aborted /\ pc[m] = "inc_read"
    /\ tmp' = [tmp EXCEPT ![m] = amountOfMonksBusy]
    /\ pc' = [pc EXCEPT ![m] = "call"]
    /\ UNCHANGED <<task, nofTasks, nofMonks, dedicatedTaskBuffer, amountOfMonksBusy,
                   abbeyMutex, abbeyCond, taskId, cur, next, monks, growths, aborted,
                   invoked, invoked1, allBusyAt, monksAtLaterStart>>
    /\ UNCHANGED outsideAbbey

\* the threads inside a task function
Executing(p) == {m \in monks : p[m] \in {"running", "running1"}}

\* monk: amountOfMonksBusy++ (the store), then the load of the pointer task for
\* task[taskId].func(task[taskId].context)
MonkCall(m) ==
    /\ ~aborted /\ pc[m] = "call"
    /\ amountOfMonksBusy' = tmp[m] + 1
    /\ tmp' = [tmp EXCEPT ![m] = 0]
    /\ pc' = [pc EXCEPT ![m] = "deref"]
    /\ UNCHANGED <<task, nofTasks, nofMonks, dedicatedTaskBuffer,
                   abbeyMutex, abbeyCond, taskId, cur, next, monks, growths, aborted,
                   invoked, invoked1, allBusyAt, monksAtLaterStart>>
    /\ UNCHANGED outsideAbbey

\* monk: func and context are read through the loaded pointer and the function is
\* entered. A monk at "deref_stale" holds the address of an array realloc has given
\* back since: its read finds the old content still there, or anything else
MonkDeref(m) ==
    /\ ~aborted /\ pc[m] \in {"deref", "deref_stale"}
    /\ LET f == task[taskId[m]].func
           c == task[taskId[m]].context
       IN  \/ /\ c \in Jobs /\ f = JobFunc(c)
              /\ invoked' = [invoked EXCEPT ![c] = @ + 1]
              /\ cur' = [cur EXCEPT ![m] = c]
              /\ pc' = [pc EXCEPT ![m] = "running"]
              /\ UNCHANGED aborted
           \/ \* a call through a pointer nobody wrote: the process dies
              /\ pc[m] = "deref_stale" \/ ~(c \in Jobs /\ f = JobFunc(c))
              /\ aborted' = TRUE
              /\ UNCHANGED <<pc, cur, invoked>>
    /\ LET later == IF allBusyAt # 0 /\ monksAtLaterStart = 0
                     THEN nofMonks ELSE monksAtLaterStart
           grown == allBusyAt = 0 \/ (later # 0 /\ later >= allBusyAt + 1)
           allBusy == Executing(pc') = monks /\ Cardinality(monks) = nofMonks
       IN  IF aborted'
           THEN UNCHANGED <<allBusyAt, monksAtLaterStart>>
           ELSE IF allBusy /\ grown
           THEN allBusyAt' = nofMonks /\ monksAtLaterStart' = 0
           ELSE allBusyAt' = allBusyAt /\ monksAtLaterStart' = later
    /\ UNCHANGED <<task, nofTasks, nofMonks, dedicatedTaskBuffer, amountOfMonksBusy,
                   abbeyMutex, abbeyCond, taskId, tmp, next, monks, growths, invoked1>>
    /\ UNCHANGED outsideAbbey

\* tuple_task: tt->func0(tt->context0) returned, tt->func1(tt->context1) is entered
tuple_task(m) ==
    /\ ~aborted /\ pc[m] = "running" /\ cur[m] = TupleJob
    /\ invoked1' = invoked1 + 1
    /\ pc' = [pc EXCEPT ![m] = "running1"]
    /\ UNCHANGED <<task, nofTasks, nofMonks, dedicatedTaskBuffer, amountOfMonksBusy,
                   abbeyMutex, abbeyCond, taskId, tmp, cur, next, monks, growths,
                   aborted, invoked, allBusyAt, monksAtLaterStart>>
    /\ UNCHANGED outsideAbbey

\* monk: the task function returns
MonkReturn(m) ==
    /\ ~aborted
    /\ \/ pc[m] = "running" /\ cur[m] # TupleJob
       \/ pc[m] = "running1"
    /\ pc' = [pc EXCEPT ![m] = "ready"]
    /\ UNCHANGED <<task, nofTasks, nofMonks, dedicatedTaskBuffer, amountOfMonksBusy,
                   abbeyMutex, abbeyCond, taskId, tmp, cur, next, monks, growths,
                   aborted, invoked, invoked1, allBusyAt, monksAtLaterStart>>
    /\ UNCHANGED outsideAbbey

\* monk: set_task_state(taskId, TS_READY); pthread_mutex_lock(&abbeyMutex);
\* if (amountOfMonksBusy >= nofMonks) dedicatedTaskBuffer = 0 ..
\* The unlock that ends set_task_state and the lock of line 244 are one step here:
\* the monk keeps the mutex, which is one of the schedules the code has.
MonkReady(m) ==
    /\ ~aborted /\ pc[m] = "ready"
    /\ IF amountOfMonksBusy >= nofMonks
       THEN /\ set_task_state(m, TS_READY, "add", {m})
            /\ dedicatedTaskBuffer' = 0
       ELSE /\ set_task_state(m, TS_READY, "dec_read", {})
            /\ UNCHANGED dedicatedTaskBuffer
    /\ taskId' = [taskId EXCEPT ![m] = NoSlot]
    /\ cur' = [cur EXCEPT ![m] = NoJob]
    /\ UNCHANGED <<nofTasks, nofMonks, amountOfMonksBusy,
                   tmp, next, monks, growths, aborted,
                   invoked, invoked1, allBusyAt, monksAtLaterStart>>
    /\ UNCHANGED outsideAbbey

\* addMonk: the number of pthread_t the array holds after
\* realloc(threadId, sizeof(pthread_t) * (nofMonks+1)), nofMonks being n at the call
ThreadIdSlots(n) == n + 1

\* addMonk(NULL) and the pthread_mutex_unlock that follows it in monk
addMonk(m) ==
    /\ ~aborted /\ pc[m] = "add"
    /\ \/ \* realloc and pthread_create succeed
          /\ nofMonks < MaxMonks /\ Cardinality(monks) < MaxMonks
          /\ LET new == Cardinality(monks) + 1
             IN  /\ monks' = monks \cup {new}
                 /\ pc' = [pc EXCEPT ![m] = "dec_read", ![new] = "lock"]
          /\ nofMonks' = nofMonks + 1
          /\ dedicatedTaskBuffer' = ReservedSlots
       \/ \* realloc succeeds, pthread_create fails: return before the reset
          /\ nofMonks < MaxMonks
          /\ nofMonks' = nofMonks + 1
          /\ pc' = [pc EXCEPT ![m] = "dec_read"]
          /\ UNCHANGED <<monks, dedicatedTaskBuffer>>
       \/ \* realloc returned NULL
          /\ pc' = [pc EXCEPT ![m] = "dec_read"]
          /\ UNCHANGED <<monks, nofMonks, dedicatedTaskBuffer>>
    /\ abbeyMutex' \in UnlockOutcomes(m)
    /\ UNCHANGED <<task, nofTasks, amountOfMonksBusy, abbeyCond, taskId, tmp, cur,
                   next, growths, aborted, invoked, invoked1, allBusyAt,
                   monksAtLaterStart>>
    /\ UNCHANGED outsideAbbey

\* monk: amountOfMonksBusy-- (the load)
MonkDecRead(m) ==
    /\ ~aborted /\ pc[m] = "dec_read"
    /\ tmp' = [tmp EXCEPT ![m] = amountOfMonksBusy]
    /\ pc' = [pc EXCEPT ![m] = "dec_write"]
    /\ UNCHANGED <<task, nofTasks, nofMonks, dedicatedTaskBuffer, amountOfMonksBusy,
                   abbeyMutex, abbeyCond, taskId, cur, next, monks, growths, aborted,
                   invoked, invoked1, allBusyAt, monksAtLaterStart>>
    /\ UNCHANGED outsideAbbey

\* monk: amountOfMonksBusy-- (the store), back to the head of while(true)
MonkDecWrite(m) ==
    /\ ~aborted /\ pc[m] = "dec_write"
    /\ amountOfMonksBusy' = tmp[m] - 1
    /\ tmp' = [tmp EXCEPT ![m] = 0]
    /\ pc' = [pc EXCEPT ![m] = "lock"]
    /\ UNCHANGED <<task, nofTasks, nofMonks, dedicatedTaskBuffer,
                   abbeyMutex, abbeyCond, taskId, cur, next, monks, growths,
                   aborted, invoked, invoked1, allBusyAt, monksAtLaterStart>>
    /\ UNCHANGED outsideAbbey

find_task_and_change_state(t) ==
    \/ FindLock(t)
    \/ FindScan(t)
    \/ FindClaim(t)
    \/ FindNoMatch(t)
    \/ increaseTaskBuffer(t)
    \/ SpuriousWakeup(t)

dispatch_described_task ==
    \/ DispatchFill
    \/ DispatchOpen

monk(m) ==
    \/ MonkIncRead(m)
    \/ MonkCall(m)
    \/ MonkDeref(m)
    \/ tuple_task(m)
    \/ MonkReturn(m)
    \/ MonkReady(m)
    \/ addMonk(m)
    \/ MonkDecRead(m)
    \/ MonkDecWrite(m)

AbbeyNext ==
    \/ \E t \in Threads : find_task_and_change_state(t)
    \/ dispatch_described_task
    \/ \E m \in MonkIds : monk(m)

(***************************************************************************)
(* ptreaty.c: the precedence protocol on the channel poseta_func1_if_func0 *)
(* allocates, and the counting handshake on flinda's eosim channel          *)
(***************************************************************************)
\* pt->st of a registered pair, flruntime->eosim, and a channel used for run-once
Channels == {"st", "eosim", "sync", "nx"}
\* the monks running poseta_task for func0 and for func1, flinda's main, the monk
\* running finalize, the monk running poseta_task for func0 when it is dispatched a
\* second time, the two threads of a run-once handshake, and a thread that calls
\* ptreaty_make_m_run_nx with the thread it signals
TreatyThreads == {"wrapA", "wrapB", "main", "finalize", "wrapA2", "signaler", "waiter",
                  "nx", "nxwaiter"}
\* the wrappers of a pair
Wrappers == {"wrapA", "wrapB", "wrapA2"}
\* pt->st of the wrappers, flruntime->eosim for main and finalize
St(t) == IF t \in Wrappers THEN "st"
         ELSE IF t \in {"main", "finalize"} THEN "eosim"
         ELSE IF t \in {"signaler", "waiter"} THEN "sync" ELSE "nx"
\* pt0->order = 0, pt1->order = 1
order(t) == IF t \in {"wrapA", "wrapA2"} THEN 0 ELSE 1
\* rounds of the run-once handshake
MaxRounds == 2
\* consecutive ptreaty_make_m_run_nx calls of the signaling thread
MaxNx == 3
\* uint8_t predicate
PredicateMod == 256

\* ptreaty_init for the channels; eosim also went through ptreaty_init_baton in
\* initFlinda, so main holds its baton, and the waiter did the same on sync. The
\* wrappers are dispatched, finalize is dispatched, main stands before
\* ptreaty_hoist_flag, the signaler before ptreaty_make_m_run_once and the waiter
\* before ptreaty_wait.
TreatyInit ==
    /\ request = [c \in Channels |-> {}]
    /\ baton = [c \in Channels |->
                  CASE c = "eosim" -> {"main"} [] c = "sync" -> {"waiter"}
                    [] c = "nx" -> {"nxwaiter"} [] OTHER -> {}]
    /\ predicate = [c \in Channels |-> 0]
    /\ signal = [c \in Channels |-> {}]
    /\ tpc = [t \in TreatyThreads |->
                CASE t = "wrapA" -> "func"
                  [] t = "wrapB" -> "later_try"
                  [] t = "main" -> "hoist"
                  [] t = "finalize" -> "run_try"
                  [] t = "wrapA2" -> "idle"
                  [] t = "signaler" -> "once_lock"
                  [] t = "nx" -> "nx_try"
                  [] t = "nxwaiter" -> "hoist"
                  [] OTHER -> "wait_test"]
    /\ ack = [c \in Channels |-> {}]
    /\ incs = [c \in Channels |-> 0]
    /\ waits = [c \in Channels |-> 0]
    /\ onceReturns = 0
    /\ acks = 0
    /\ spurious = {}
    /\ nxReturns = 0

\* a thread leaving pthread_cond_wait goes on to re-acquire the mutex it waited with
Woken(p, ws) == [t \in TreatyThreads |-> IF t \in ws THEN "relock" ELSE p[t]]

\* poseta_task: pt->func(pt->context) is entered
PosetaCall(t) ==
    /\ t \in Wrappers
    /\ tpc[t] = "func"
    /\ tpc' = [tpc EXCEPT ![t] = "in_func"]
    /\ UNCHANGED <<request, baton, predicate, signal>>
    /\ UNCHANGED <<ack, incs, waits, onceReturns, acks, spurious>>
    /\ UNCHANGED nxReturns
    /\ UNCHANGED outsideTreaty

\* poseta_task: pt->func returns; with order 0 the treaty follows
PosetaReturn(t) ==
    /\ t \in Wrappers
    /\ tpc[t] = "in_func"
    /\ tpc' = [tpc EXCEPT ![t] = IF order(t) = 0 THEN "first_lock" ELSE "done"]
    /\ UNCHANGED <<request, baton, predicate, signal>>
    /\ UNCHANGED <<ack, incs, waits, onceReturns, acks, spurious>>
    /\ UNCHANGED nxReturns
    /\ UNCHANGED outsideTreaty

\* ptreaty_should_be_first: pthread_mutex_lock(st->request)
FirstLock(t) ==
    /\ tpc[t] = "first_lock"
    /\ request[St(t)] = {}
    /\ request' = [request EXCEPT ![St(t)] = {t}]
    /\ tpc' = [tpc EXCEPT ![t] = "first_broadcast"]
    /\ UNCHANGED <<baton, predicate, signal>>
    /\ UNCHANGED <<ack, incs, waits, onceReturns, acks, spurious>>
    /\ UNCHANGED nxReturns
    /\ UNCHANGED outsideTreaty

\* ptreaty_should_be_first: pthread_cond_broadcast(st->signal)
FirstBroadcast(t) ==
    /\ tpc[t] = "first_broadcast"
    /\ signal' = [signal EXCEPT ![St(t)] = {}]
    /\ tpc' = [Woken(tpc, signal[St(t)]) EXCEPT ![t] = "first_probe"]
    /\ UNCHANGED <<request, baton, predicate>>
    /\ UNCHANGED <<ack, incs, waits, onceReturns, acks, spurious>>
    /\ UNCHANGED nxReturns
    /\ UNCHANGED outsideTreaty

\* ptreaty_should_be_first: pthread_mutex_trylock(st->baton); EBUSY: unlock the
\* request and return, otherwise the baton is held now
FirstProbe(t) ==
    /\ tpc[t] = "first_probe"
    /\ IF baton[St(t)] # {}
       THEN /\ request' = [request EXCEPT ![St(t)] = {}]
            /\ tpc' = [tpc EXCEPT ![t] = "done"]
            /\ UNCHANGED baton
       ELSE /\ baton' = [baton EXCEPT ![St(t)] = {t}]
            /\ tpc' = [tpc EXCEPT ![t] = "first_unlock"]
            /\ UNCHANGED request
    /\ UNCHANGED <<predicate, signal>>
    /\ UNCHANGED <<ack, incs, waits, onceReturns, acks, spurious>>
    /\ UNCHANGED nxReturns
    /\ UNCHANGED outsideTreaty

\* ptreaty_should_be_first: pthread_mutex_unlock(st->baton); the request stays locked
FirstUnlock(t) ==
    /\ tpc[t] = "first_unlock"
    /\ baton' = [baton EXCEPT ![St(t)] = {}]
    /\ tpc' = [tpc EXCEPT ![t] = "done"]
    /\ UNCHANGED <<request, predicate, signal>>
    /\ UNCHANGED <<ack, incs, waits, onceReturns, acks, spurious>>
    /\ UNCHANGED nxReturns
    /\ UNCHANGED outsideTreaty

ptreaty_should_be_first(t) ==
    \/ FirstLock(t)
    \/ FirstBroadcast(t)
    \/ FirstProbe(t)
    \/ FirstUnlock(t)

\* ptreaty_should_be_later: pthread_mutex_trylock(st->request); EBUSY: continue
LaterTry(t) ==
    /\ tpc[t] = "later_try"
    /\ IF request[St(t)] # {}
       THEN /\ tpc' = [tpc EXCEPT ![t] = "func"]
            /\ UNCHANGED request
       ELSE /\ request' = [request EXCEPT ![St(t)] = {t}]
            /\ tpc' = [tpc EXCEPT ![t] = "later_baton"]
    /\ UNCHANGED <<baton, predicate, signal>>
    /\ UNCHANGED <<ack, incs, waits, onceReturns, acks, spurious>>
    /\ UNCHANGED nxReturns
    /\ UNCHANGED outsideTreaty

\* ptreaty_should_be_later: pthread_mutex_lock(st->baton)
LaterBaton(t) ==
    /\ tpc[t] = "later_baton"
    /\ baton[St(t)] = {}
    /\ baton' = [baton EXCEPT ![St(t)] = {t}]
    /\ tpc' = [tpc EXCEPT ![t] = "later_wait"]
    /\ UNCHANGED <<request, predicate, signal>>
    /\ UNCHANGED <<ack, incs, waits, onceReturns, acks, spurious>>
    /\ UNCHANGED nxReturns
    /\ UNCHANGED outsideTreaty

\* ptreaty_should_be_later: pthread_cond_wait(st->signal, st->request) releases the
\* request and blocks
LaterWait(t) ==
    /\ tpc[t] = "later_wait"
    /\ request' = [request EXCEPT ![St(t)] = {}]
    /\ signal' = [signal EXCEPT ![St(t)] = @ \cup {t}]
    /\ tpc' = [tpc EXCEPT ![t] = "waiting"]
    /\ UNCHANGED <<baton, predicate>>
    /\ UNCHANGED <<ack, incs, waits, onceReturns, acks, spurious>>
    /\ UNCHANGED nxReturns
    /\ UNCHANGED outsideTreaty

\* the end of that pthread_cond_wait: the request is re-acquired and the routine
\* returns; with order 1 the function follows
LaterRelock(t) ==
    /\ t = "wrapB"
    /\ tpc[t] = "relock"
    /\ request[St(t)] = {}
    /\ request' = [request EXCEPT ![St(t)] = {t}]
    /\ tpc' = [tpc EXCEPT ![t] = "func"]
    /\ UNCHANGED <<baton, predicate, signal>>
    /\ UNCHANGED <<ack, incs, waits, onceReturns, acks, spurious>>
    /\ UNCHANGED nxReturns
    /\ UNCHANGED outsideTreaty

ptreaty_should_be_later(t) ==
    \/ LaterTry(t)
    \/ LaterBaton(t)
    \/ LaterWait(t)
    \/ LaterRelock(t)

poseta_task(t) ==
    \/ PosetaCall(t)
    \/ PosetaReturn(t)
    \/ ptreaty_should_be_first(t)
    \/ ptreaty_should_be_later(t)

\* pthread_cond_wait may return without any signal or broadcast
TreatySpuriousWakeup(t) ==
    /\ tpc[t] = "waiting"
    /\ t \in signal[St(t)]
    /\ signal' = [signal EXCEPT ![St(t)] = @ \ {t}]
    /\ tpc' = [tpc EXCEPT ![t] = "relock"]
    /\ UNCHANGED <<request, baton, predicate>>
    /\ spurious' = spurious \cup {t}
    /\ UNCHANGED <<ack, incs, waits, onceReturns, acks>>
    /\ UNCHANGED nxReturns
    /\ UNCHANGED outsideTreaty

\* ptreaty_hoist_flag: pthread_mutex_lock(st->request)
ptreaty_hoist_flag(t) ==
    /\ tpc[t] = "hoist"
    /\ request[St(t)] = {}
    /\ request' = [request EXCEPT ![St(t)] = {t}]
    /\ tpc' = [tpc EXCEPT ![t] = "wait_test"]
    /\ UNCHANGED <<baton, predicate, signal>>
    /\ UNCHANGED <<ack, incs, waits, onceReturns, acks, spurious>>
    /\ UNCHANGED nxReturns
    /\ UNCHANGED outsideTreaty

\* ptreaty_wait: while (st->predicate == 0) pthread_cond_wait(st->signal, st->baton);
\* st->predicate--
WaitTest(t) ==
    /\ tpc[t] = "wait_test"
    /\ IF predicate[St(t)] = 0
       THEN /\ baton' = [baton EXCEPT ![St(t)] = {}]
            /\ signal' = [signal EXCEPT ![St(t)] = @ \cup {t}]
            /\ tpc' = [tpc EXCEPT ![t] = "waiting"]
            /\ UNCHANGED predicate
            /\ UNCHANGED waits
       ELSE /\ predicate' = [predicate EXCEPT ![St(t)] = (@ - 1) % PredicateMod]
            /\ waits' = [waits EXCEPT ![St(t)] = @ + 1]
            /\ tpc' = [tpc EXCEPT ![t] = "returned"]
            /\ UNCHANGED <<baton, signal>>
    /\ UNCHANGED request
    /\ UNCHANGED <<ack, incs, onceReturns, acks, spurious>>
    /\ UNCHANGED nxReturns
    /\ UNCHANGED outsideTreaty

\* a ptreaty_wait that tests the predicate once: after the pthread_cond_wait it
\* decrements and returns
WaitRelockNoRetest(t) ==
    /\ t \in {"main", "waiter"}
    /\ tpc[t] = "relock"
    /\ baton[St(t)] = {}
    /\ baton' = [baton EXCEPT ![St(t)] = {t}]
    /\ predicate' = [predicate EXCEPT ![St(t)] = (@ - 1) % PredicateMod]
    /\ waits' = [waits EXCEPT ![St(t)] = @ + 1]
    /\ tpc' = [tpc EXCEPT ![t] = "returned"]
    /\ UNCHANGED <<request, signal>>
    /\ UNCHANGED <<ack, incs, onceReturns, acks, spurious>>
    /\ UNCHANGED nxReturns
    /\ UNCHANGED outsideTreaty

\* the end of pthread_cond_wait in ptreaty_wait: the baton is re-acquired
WaitRelock(t) ==
    /\ t \in {"main", "waiter", "nxwaiter"}
    /\ tpc[t] = "relock"
    /\ baton[St(t)] = {}
    /\ baton' = [baton EXCEPT ![St(t)] = {t}]
    /\ tpc' = [tpc EXCEPT ![t] = "wait_test"]
    /\ UNCHANGED <<request, predicate, signal>>
    /\ UNCHANGED <<ack, incs, waits, onceReturns, acks, spurious>>
    /\ UNCHANGED nxReturns
    /\ UNCHANGED outsideTreaty

ptreaty_wait(t) ==
    \/ WaitTest(t)
    \/ WaitRelock(t)

\* ptreaty_flag_hoisted inside ptreaty_make_m_run: pthread_mutex_trylock(st->request)
\* == EBUSY; a free request is locked by the test
ptreaty_flag_hoisted(t) ==
    /\ tpc[t] = "run_try"
    /\ IF request[St(t)] # {}
       THEN /\ tpc' = [tpc EXCEPT ![t] = "run_baton"]
            /\ UNCHANGED request
       ELSE /\ request' = [request EXCEPT ![St(t)] = {t}]
            /\ tpc' = [tpc EXCEPT ![t] = "run_release"]
    /\ UNCHANGED <<baton, predicate, signal>>
    /\ UNCHANGED <<ack, incs, waits, onceReturns, acks, spurious>>
    /\ UNCHANGED nxReturns
    /\ UNCHANGED outsideTreaty

\* ptreaty_make_m_run, flag hoisted: pthread_mutex_lock(st->baton)
RunBaton(t) ==
    /\ tpc[t] = "run_baton"
    /\ baton[St(t)] = {}
    /\ baton' = [baton EXCEPT ![St(t)] = {t}]
    /\ tpc' = [tpc EXCEPT ![t] = "run_signal"]
    /\ UNCHANGED <<request, predicate, signal>>
    /\ UNCHANGED <<ack, incs, waits, onceReturns, acks, spurious>>
    /\ UNCHANGED nxReturns
    /\ UNCHANGED outsideTreaty

\* ptreaty_make_m_run, flag hoisted: st->predicate++; pthread_cond_signal(st->signal)
RunSignal(t) ==
    /\ tpc[t] = "run_signal"
    /\ predicate' = [predicate EXCEPT ![St(t)] = (@ + 1) % PredicateMod]
    /\ IF signal[St(t)] = {}
       THEN UNCHANGED signal /\ tpc' = [tpc EXCEPT ![t] = "run_unlock"]
       ELSE \E w \in signal[St(t)] :
               /\ signal' = [signal EXCEPT ![St(t)] = @ \ {w}]
               /\ tpc' = [Woken(tpc, {w}) EXCEPT ![t] = "run_unlock"]
    /\ incs' = [incs EXCEPT ![St(t)] = @ + 1]
    /\ UNCHANGED <<request, baton>>
    /\ UNCHANGED <<ack, waits, onceReturns, acks, spurious>>
    /\ UNCHANGED nxReturns
    /\ UNCHANGED outsideTreaty

\* ptreaty_make_m_run, flag hoisted: pthread_mutex_unlock(st->baton)
RunUnlock(t) ==
    /\ tpc[t] = "run_unlock"
    /\ baton' = [baton EXCEPT ![St(t)] = {}]
    /\ tpc' = [tpc EXCEPT ![t] = "done"]
    /\ UNCHANGED <<request, predicate, signal>>
    /\ UNCHANGED <<ack, incs, waits, onceReturns, acks, spurious>>
    /\ UNCHANGED nxReturns
    /\ UNCHANGED outsideTreaty

\* ptreaty_make_m_run, flag not hoisted: pthread_mutex_unlock(st->request)
RunRelease(t) ==
    /\ tpc[t] = "run_release"
    /\ request' = [request EXCEPT ![St(t)] = {}]
    /\ tpc' = [tpc EXCEPT ![t] = "done"]
    /\ UNCHANGED <<baton, predicate, signal>>
    /\ UNCHANGED <<ack, incs, waits, onceReturns, acks, spurious>>
    /\ UNCHANGED nxReturns
    /\ UNCHANGED outsideTreaty

ptreaty_make_m_run(t) ==
    \/ ptreaty_flag_hoisted(t)
    \/ RunBaton(t)
    \/ RunSignal(t)
    \/ RunUnlock(t)
    \/ RunRelease(t)

\* dispatch_poseta_task(func0) once more after the round of the pair is complete
Redispatch(t) ==
    /\ t = "wrapA2"
    /\ tpc[t] = "idle"
    /\ tpc["wrapA"] = "done" /\ tpc["wrapB"] = "done"
    /\ tpc' = [tpc EXCEPT ![t] = "func"]
    /\ UNCHANGED <<request, baton, predicate, signal>>
    /\ UNCHANGED <<ack, incs, waits, onceReturns, acks, spurious>>
    /\ UNCHANGED nxReturns
    /\ UNCHANGED outsideTreaty

\* ptreaty_make_m_run_once: pthread_mutex_lock(st->baton)
OnceLock(t) ==
    /\ tpc[t] = "once_lock"
    /\ baton[St(t)] = {}
    /\ baton' = [baton EXCEPT ![St(t)] = {t}]
    /\ tpc' = [tpc EXCEPT ![t] = "once_signal"]
    /\ UNCHANGED <<request, predicate, signal>>
    /\ UNCHANGED <<ack, incs, waits, onceReturns, acks, spurious>>
    /\ UNCHANGED nxReturns
    /\ UNCHANGED outsideTreaty

\* ptreaty_make_m_run_once: st->predicate++; pthread_cond_signal(st->signal)
OnceSignal(t) ==
    /\ tpc[t] = "once_signal"
    /\ predicate' = [predicate EXCEPT ![St(t)] = (@ + 1) % PredicateMod]
    /\ incs' = [incs EXCEPT ![St(t)] = @ + 1]
    /\ IF signal[St(t)] = {}
       THEN UNCHANGED signal /\ tpc' = [tpc EXCEPT ![t] = "once_test"]
       ELSE \E w \in signal[St(t)] :
               /\ signal' = [signal EXCEPT ![St(t)] = @ \ {w}]
               /\ tpc' = [Woken(tpc, {w}) EXCEPT ![t] = "once_test"]
    /\ UNCHANGED <<request, baton>>
    /\ UNCHANGED <<ack, waits, onceReturns, acks, spurious>>
    /\ UNCHANGED nxReturns
    /\ UNCHANGED outsideTreaty

\* ptreaty_make_m_run_once: if (st->predicate != 0) pthread_cond_wait(st->ack,
\* st->baton), which releases the baton and blocks
OnceTest(t) ==
    /\ tpc[t] = "once_test"
    /\ IF predicate[St(t)] # 0
       THEN /\ baton' = [baton EXCEPT ![St(t)] = {}]
            /\ ack' = [ack EXCEPT ![St(t)] = @ \cup {t}]
            /\ tpc' = [tpc EXCEPT ![t] = "ack_waiting"]
       ELSE /\ tpc' = [tpc EXCEPT ![t] = "once_unlock"]
            /\ UNCHANGED <<baton, ack>>
    /\ UNCHANGED <<request, predicate, signal>>
    /\ UNCHANGED <<incs, waits, onceReturns, acks, spurious>>
    /\ UNCHANGED nxReturns
    /\ UNCHANGED outsideTreaty

\* the end of that pthread_cond_wait: the baton is re-acquired
OnceRelock(t) ==
    /\ tpc[t] = "ack_relock"
    /\ baton[St(t)] = {}
    /\ baton' = [baton EXCEPT ![St(t)] = {t}]
    /\ tpc' = [tpc EXCEPT ![t] = "once_unlock"]
    /\ UNCHANGED <<request, predicate, signal>>
    /\ UNCHANGED <<ack, incs, waits, onceReturns, acks, spurious>>
    /\ UNCHANGED nxReturns
    /\ UNCHANGED outsideTreaty

\* where the thread that calls ptreaty_make_m_run_nx stands after n returns
NxAfter(n) == IF n < MaxNx THEN "nx_try" ELSE "done"

\* ptreaty_make_m_run_once: pthread_mutex_unlock(st->baton) and the return; the
\* signaler calls the routine MaxRounds times
OnceUnlock(t) ==
    /\ tpc[t] = "once_unlock"
    /\ baton' = [baton EXCEPT ![St(t)] = {}]
    /\ onceReturns' = onceReturns + 1
    /\ IF t = "nx"
       THEN /\ nxReturns' = nxReturns + 1
            /\ tpc' = [tpc EXCEPT ![t] = NxAfter(nxReturns + 1)]
       ELSE /\ tpc' = [tpc EXCEPT ![t] = IF onceReturns + 1 < MaxRounds THEN "once_lock"
                                         ELSE "done"]
            /\ UNCHANGED nxReturns
    /\ UNCHANGED <<request, predicate, signal>>
    /\ UNCHANGED <<ack, incs, waits, acks, spurious>>
    /\ UNCHANGED outsideTreaty

ptreaty_make_m_run_once(t) ==
    \/ OnceLock(t)
    \/ OnceSignal(t)
    \/ OnceTest(t)
    \/ OnceRelock(t)
    \/ OnceUnlock(t)

\* the pthread_cond_wait on st->ack may return without any signal as well
AckSpuriousWakeup(t) ==
    /\ tpc[t] = "ack_waiting"
    /\ t \in ack[St(t)]
    /\ ack' = [ack EXCEPT ![St(t)] = @ \ {t}]
    /\ tpc' = [tpc EXCEPT ![t] = "ack_relock"]
    /\ UNCHANGED <<request, baton, predicate, signal>>
    /\ UNCHANGED <<incs, waits, onceReturns, acks, spurious>>
    /\ UNCHANGED nxReturns
    /\ UNCHANGED outsideTreaty

\* ptreaty_has_run: pthread_cond_signal(st->ack), called by the waiter after its
\* ptreaty_wait returned; the waiter then waits again, MaxRounds times in all, and
\* the thread ptreaty_make_m_run_nx signals goes on to ptreaty_lower_flag
ptreaty_has_run(t) ==
    /\ t \in {"waiter", "nxwaiter"}
    /\ tpc[t] = "returned"
    /\ acks' = acks + 1
    /\ LET p == [tpc EXCEPT ![t] = IF t = "nxwaiter" THEN "lower"
                                   ELSE IF waits[St(t)] < MaxRounds THEN "wait_test"
                                   ELSE "done"]
       IN IF ack[St(t)] = {}
          THEN UNCHANGED ack /\ tpc' = p
          ELSE \E w \in ack[St(t)] :
                  /\ ack' = [ack EXCEPT ![St(t)] = @ \ {w}]
                  /\ tpc' = [p EXCEPT ![w] = "ack_relock"]
    /\ UNCHANGED <<request, baton, predicate, signal>>
    /\ UNCHANGED <<incs, waits, onceReturns, spurious>>
    /\ UNCHANGED nxReturns
    /\ UNCHANGED outsideTreaty

\* ptreaty_lower_flag: pthread_mutex_unlock(st->request)
ptreaty_lower_flag(t) ==
    /\ tpc[t] = "lower"
    /\ request' = [request EXCEPT ![St(t)] = {}]
    /\ tpc' = [tpc EXCEPT ![t] = "done"]
    /\ UNCHANGED <<baton, predicate, signal>>
    /\ UNCHANGED <<ack, incs, waits, onceReturns, acks, spurious, nxReturns>>
    /\ UNCHANGED outsideTreaty

\* ptreaty_make_m_run_nx: if (ptreaty_flag_hoisted(st)), a pthread_mutex_trylock of
\* st->request that locks a free request; EBUSY leads to ptreaty_make_m_run_once
NxTry(t) ==
    /\ tpc[t] = "nx_try"
    /\ IF request[St(t)] # {}
       THEN /\ tpc' = [tpc EXCEPT ![t] = "once_lock"]
            /\ UNCHANGED request
       ELSE /\ request' = [request EXCEPT ![St(t)] = {t}]
            /\ tpc' = [tpc EXCEPT ![t] = "just_run"]
    /\ UNCHANGED <<baton, predicate, signal>>
    /\ UNCHANGED <<ack, incs, waits, onceReturns, acks, spurious, nxReturns>>
    /\ UNCHANGED outsideTreaty

\* ptreaty_make_m_just_run: st->predicate++; pthread_cond_signal(st->signal); and
\* the return of ptreaty_make_m_run_nx
ptreaty_make_m_just_run(t) ==
    /\ tpc[t] = "just_run"
    /\ predicate' = [predicate EXCEPT ![St(t)] = (@ + 1) % PredicateMod]
    /\ incs' = [incs EXCEPT ![St(t)] = @ + 1]
    /\ nxReturns' = nxReturns + 1
    /\ IF signal[St(t)] = {}
       THEN UNCHANGED signal /\ tpc' = [tpc EXCEPT ![t] = NxAfter(nxReturns + 1)]
       ELSE \E w \in signal[St(t)] :
               /\ signal' = [signal EXCEPT ![St(t)] = @ \ {w}]
               /\ tpc' = [Woken(tpc, {w}) EXCEPT ![t] = NxAfter(nxReturns + 1)]
    /\ UNCHANGED <<request, baton>>
    /\ UNCHANGED <<ack, waits, onceReturns, acks, spurious>>
    /\ UNCHANGED outsideTreaty

ptreaty_make_m_run_nx(t) ==
    \/ NxTry(t)
    \/ ptreaty_make_m_just_run(t)
    \/ ptreaty_make_m_run_once(t)

\* static void *finalize(void *context) of flinda.c
finalize == ptreaty_make_m_run("finalize")

\* main of flinda.c from ptreaty_hoist_flag on
main ==
    \/ ptreaty_hoist_flag("main")
    \/ ptreaty_wait("main")

TreatyNext ==
    \/ \E t \in Wrappers : poseta_task(t)
    \/ \E t \in TreatyThreads : TreatySpuriousWakeup(t)
    \/ main
    \/ finalize
    \/ Redispatch("wrapA2")
    \/ ptreaty_make_m_run_once("signaler")
    \/ AckSpuriousWakeup("signaler")
    \/ ptreaty_wait("waiter")
    \/ ptreaty_has_run("waiter")

\* one thread calling ptreaty_make_m_run_nx MaxNx times, and the thread it signals:
\* ptreaty_hoist_flag, ptreaty_wait, ptreaty_has_run, ptreaty_lower_flag
NxNext ==
    \/ ptreaty_make_m_run_nx("nx")
    \/ AckSpuriousWakeup("nx")
    \/ ptreaty_hoist_flag("nxwaiter")
    \/ ptreaty_wait("nxwaiter")
    \/ TreatySpuriousWakeup("nxwaiter")
    \/ ptreaty_has_run("nxwaiter")
    \/ ptreaty_lower_flag("nxwaiter")

(***************************************************************************)
(* tcpip.c: push and pop on one mailbox                                    *)
(***************************************************************************)
\* messages the pushing threads allocate, threads that use the mailbox, pop calls
NMsgs == 3
NMailThreads == 2
MaxPops == 4

NULL == 0
Msgs == 1..NMsgs
MailThreads == 1..NMailThreads
\* ret of a thread whose pop has not returned
NoRet == -1
\* snap while no pop holds the lock
NoSnap == <<>>

\* tcpip_get: first = NULL, last = NULL, pthread_mutex_init(lock)
MailboxInit ==
    /\ first = NULL
    /\ last = NULL
    /\ msgNext = [m \in Msgs |-> NULL]
    /\ lock = {}
    /\ mpc = [t \in MailThreads |-> "idle"]
    /\ arg = [t \in MailThreads |-> NULL]
    /\ ret = [t \in MailThreads |-> NoRet]
    /\ allocated = 0
    /\ pops = 0
    /\ segv = FALSE
    /\ applied = <<>>
    /\ popped = <<>>
    /\ snap = NoSnap
    /\ emptyPopAt = -1

\* push(M, m), line 88: pthread_mutex_lock(M->lock); m is a message fresh from
\* malloc, so its next field holds whatever was there
PushLock(t) ==
    /\ ~segv /\ mpc[t] = "idle" /\ lock = {}
    /\ allocated < NMsgs
    /\ allocated' = allocated + 1
    /\ \E garbage \in {NULL} \cup Msgs :
          msgNext' = [msgNext EXCEPT ![allocated + 1] = garbage]
    /\ lock' = {t}
    /\ arg' = [arg EXCEPT ![t] = allocated + 1]
    /\ ret' = [ret EXCEPT ![t] = NoRet]
    /\ applied' = Append(applied, allocated + 1)
    /\ mpc' = [mpc EXCEPT ![t] = "push_link"]
    /\ UNCHANGED <<first, last, pops, segv, popped, snap, emptyPopAt>>
    /\ UNCHANGED outsideMailbox

\* push, lines 89-96: if (M->first == NULL) M->first = m; else M->last->next = m
PushLink(t) ==
    /\ ~segv /\ mpc[t] = "push_link"
    /\ IF first = NULL
       THEN first' = arg[t] /\ UNCHANGED <<msgNext, segv>>
       ELSE IF last = NULL
            THEN segv' = TRUE /\ UNCHANGED <<first, msgNext>>
            ELSE /\ msgNext' = [msgNext EXCEPT ![last] = arg[t]]
                 /\ UNCHANGED <<first, segv>>
    /\ mpc' = [mpc EXCEPT ![t] = "push_last"]
    /\ UNCHANGED <<last, lock, arg, ret, allocated, pops, applied, popped, snap,
                   emptyPopAt>>
    /\ UNCHANGED outsideMailbox

\* push, line 97: M->last = m
PushLast(t) ==
    /\ ~segv /\ mpc[t] = "push_last"
    /\ last' = arg[t]
    /\ mpc' = [mpc EXCEPT ![t] = "push_next"]
    /\ UNCHANGED <<first, msgNext, lock, arg, ret, allocated, pops, segv, applied,
                   popped, snap, emptyPopAt>>
    /\ UNCHANGED outsideMailbox

\* push, line 98: m->next = NULL
PushNext(t) ==
    /\ ~segv /\ mpc[t] = "push_next"
    /\ msgNext' = [msgNext EXCEPT ![arg[t]] = NULL]
    /\ mpc' = [mpc EXCEPT ![t] = "push_unlock"]
    /\ UNCHANGED <<first, last, lock, arg, ret, allocated, pops, segv, applied,
                   popped, snap, emptyPopAt>>
    /\ UNCHANGED outsideMailbox

\* push, line 99: pthread_mutex_unlock(M->lock)
PushUnlock(t) ==
    /\ ~segv /\ mpc[t] = "push_unlock"
    /\ lock' = {}
    /\ arg' = [arg EXCEPT ![t] = NULL]
    /\ mpc' = [mpc EXCEPT ![t] = "idle"]
    /\ UNCHANGED <<first, last, msgNext, ret, allocated, pops, segv, applied,
                   popped, snap, emptyPopAt>>
    /\ UNCHANGED outsideMailbox

push(t) ==
    \/ PushLock(t)
    \/ PushLink(t)
    \/ PushLast(t)
    \/ PushNext(t)
    \/ PushUnlock(t)

\* pop(M), line 124: pthread_mutex_lock(M->lock)
PopLock(t) ==
    /\ ~segv /\ mpc[t] = "idle" /\ lock = {}
    /\ pops < MaxPops
    /\ pops' = pops + 1
    /\ lock' = {t}
    /\ ret' = [ret EXCEPT ![t] = NoRet]
    /\ snap' = <<first, last, msgNext>>
    /\ mpc' = [mpc EXCEPT ![t] = "pop_test"]
    /\ UNCHANGED <<first, last, msgNext, arg, allocated, segv, applied, popped,
                   emptyPopAt>>
    /\ UNCHANGED outsideMailbox

\* pop, lines 125-129: if (M->first == NULL) the NULL return follows, else
\* m = M->first
PopTest(t) ==
    /\ ~segv /\ mpc[t] = "pop_test"
    /\ IF first = NULL
       THEN /\ mpc' = [mpc EXCEPT ![t] = "pop_unlock"]
            /\ UNCHANGED <<arg, popped>>
       ELSE /\ arg' = [arg EXCEPT ![t] = first]
            /\ popped' = Append(popped, first)
            /\ mpc' = [mpc EXCEPT ![t] = "pop_advance"]
    /\ UNCHANGED <<first, last, msgNext, lock, ret, allocated, pops, segv, applied,
                   snap, emptyPopAt>>
    /\ UNCHANGED outsideMailbox

\* a pop whose line 130 leaves M->first where it is
PopAdvanceKeepsFirst(t) ==
    /\ ~segv /\ mpc[t] = "pop_advance"
    /\ mpc' = [mpc EXCEPT ![t] = "pop_cut"]
    /\ UNCHANGED <<first, last, msgNext, lock, arg, ret, allocated, pops, segv,
                   applied, popped, snap, emptyPopAt>>
    /\ UNCHANGED outsideMailbox

\* pop, line 130: M->first = M->first->next
PopAdvance(t) ==
    /\ ~segv /\ mpc[t] = "pop_advance"
    /\ first' = msgNext[first]
    /\ mpc' = [mpc EXCEPT ![t] = "pop_cut"]
    /\ UNCHANGED <<last, msgNext, lock, arg, ret, allocated, pops, segv, applied,
                   popped, snap, emptyPopAt>>
    /\ UNCHANGED outsideMailbox

\* pop, line 131: m->next = NULL
PopCut(t) ==
    /\ ~segv /\ mpc[t] = "pop_cut"
    /\ msgNext' = [msgNext EXCEPT ![arg[t]] = NULL]
    /\ mpc' = [mpc EXCEPT ![t] = "pop_unlock"]
    /\ UNCHANGED <<first, last, lock, arg, ret, allocated, pops, segv, applied,
                   popped, snap, emptyPopAt>>
    /\ UNCHANGED outsideMailbox

\* a pop whose NULL return (lines 126-127) skips pthread_mutex_unlock
PopUnlockKeepsLockOnNull(t) ==
    /\ ~segv /\ mpc[t] = "pop_unlock"
    /\ lock' = IF arg[t] = NULL THEN lock ELSE {}
    /\ ret' = [ret EXCEPT ![t] = arg[t]]
    /\ arg' = [arg EXCEPT ![t] = NULL]
    /\ snap' = NoSnap
    /\ emptyPopAt' = IF arg[t] = NULL THEN Len(applied) ELSE emptyPopAt
    /\ mpc' = [mpc EXCEPT ![t] = "idle"]
    /\ UNCHANGED <<first, last, msgNext, allocated, pops, segv, applied, popped>>
    /\ UNCHANGED outsideMailbox

\* pop, lines 126-127 and 132-133: pthread_mutex_unlock(M->lock); return NULL, or
\* return m
PopUnlock(t) ==
    /\ ~segv /\ mpc[t] = "pop_unlock"
    /\ lock' = {}
    /\ ret' = [ret EXCEPT ![t] = arg[t]]
    /\ arg' = [arg EXCEPT ![t] = NULL]
    /\ snap' = NoSnap
    /\ emptyPopAt' = IF arg[t] = NULL THEN Len(applied) ELSE emptyPopAt
    /\ mpc' = [mpc EXCEPT ![t] = "idle"]
    /\ UNCHANGED <<first, last, msgNext, allocated, pops, segv, applied, popped>>
    /\ UNCHANGED outsideMailbox

pop(t) ==
    \/ PopLock(t)
    \/ PopTest(t)
    \/ PopAdvance(t)
    \/ PopCut(t)
    \/ PopUnlock(t)

MailboxNext == \E t \in MailThreads : push(t) \/ pop(t)

\* the messages reached from m over the next fields, as count walks them
RECURSIVE Chain(_, _)
Chain(m, fuel) ==
    IF m = NULL \/ fuel = 0 THEN <<>> ELSE <<m>> \o Chain(msgNext[m], fuel - 1)

\* the content of the mailbox, oldest message first
Content == Chain(first, NMsgs + 1)

(***************************************************************************)
(* poseta.c: addCondition, getCondition, poseta_func1_if_func0 and          *)
(* dispatch_poseta_task                                                     *)
(***************************************************************************)
\* poseta_func1_if_func0 calls and dispatch_poseta_task calls the application makes
MaxRegs == 2
MaxDispatches == 2

\* the functions the application registers and dispatches, and their contexts
Funcs == {"fA", "fB", "fC"}
Contexts == {1, 2}
\* pt->context before the first dispatch_poseta_task (malloc, never written)
NoContext == 0
\* what a read through the NULL condition pointer yields when it does not trap
Wild == "wild"

\* wrapperRuns[i].used of a queued wrapper no monk has run yet
Pending == -1

\* registered[f] of a function that was never registered
NoEntry == [condition_index |-> -1, st |-> 0]

\* initPoseta: posconf->cond = NULL
RegistryInit ==
    /\ cond = <<>>
    /\ regCalls = 0
    /\ dispatches = 0
    /\ queued = <<>>
    /\ regCrashed = FALSE
    /\ registered = [f \in Funcs |-> NoEntry]
    /\ reRegistered = FALSE
    /\ lastCall = [func |-> "none", context |-> NoContext, found |-> TRUE]
    /\ wrapperRuns = <<>>

\* getCondition on the list l: the first condition whose name is the given one, as a
\* sequence of length one; <<>> for the NULL return
RECURSIVE getCondition(_, _)
getCondition(l, name) ==
    IF l = <<>> THEN <<>>
    ELSE IF Head(l).name = name THEN <<Head(l)>>
    ELSE getCondition(Tail(l), name)

\* an addCondition that puts every condition at the head of the list
addConditionUnchecked(l, c) ==
    IF l = <<>> THEN <<c>> ELSE <<c>> \o l

\* addCondition on the list l: the first condition ever, a rejected one, or a new head
addCondition(l, c) ==
    IF l = <<>> THEN <<c>>
    ELSE IF getCondition(l, c.name) # <<>> THEN l
    ELSE <<c>> \o l

\* the condition poseta_func1_if_func0 allocates for func with the given index on
\* channel st; exec is poseta_task, context the PosetaTask
Condition(func, index, st) ==
    [name |-> func, condition_index |-> index, exec |-> "poseta_task", st |-> st,
     context |-> NoContext]

\* poseta_func1_if_func0(func0, func1); the fresh channel is numbered by the call
poseta_func1_if_func0(func0, func1) ==
    /\ ~regCrashed /\ regCalls < MaxRegs
    /\ regCalls' = regCalls + 1
    /\ LET st == regCalls + 1
           l0 == addCondition(cond, Condition(func0, 0, st))
           r0 == IF registered[func0] = NoEntry
                 THEN [registered EXCEPT ![func0] = [condition_index |-> 0, st |-> st]]
                 ELSE registered
       IN  /\ cond' = addCondition(l0, Condition(func1, 1, st))
           /\ registered' = IF r0[func1] = NoEntry
                            THEN [r0 EXCEPT ![func1] = [condition_index |-> 1, st |-> st]]
                            ELSE r0
           /\ reRegistered' = (reRegistered \/ registered[func0] # NoEntry
                                \/ r0[func1] # NoEntry)
    /\ UNCHANGED <<dispatches, queued, regCrashed, lastCall, wrapperRuns>>
    /\ UNCHANGED outsideRegistry

\* dispatch_poseta_task(func, context, taskDesc), registered func: the PosetaTask gets
\* the context and poseta_task is dispatched with it
DispatchRegistered(func, context) ==
    /\ ~regCrashed /\ dispatches < MaxDispatches
    /\ getCondition(cond, func) # <<>>
    /\ dispatches' = dispatches + 1
    /\ cond' = [i \in 1..Len(cond) |->
                  IF cond[i].name = func /\ cond[i].condition_index \in {0, 1}
                  THEN [cond[i] EXCEPT !.context = context] ELSE cond[i]]
    \* lc->context is the PosetaTask of func, named by func here
    /\ queued' = Append(queued, [func |-> getCondition(cond, func)[1].exec,
                                 context |-> func])
    /\ lastCall' = [func |-> func, context |-> context, found |-> TRUE]
    /\ wrapperRuns' = Append(wrapperRuns, [own |-> context, used |-> Pending])
    /\ UNCHANGED <<regCalls, regCrashed, registered, reRegistered>>
    /\ UNCHANGED outsideRegistry

\* dispatch_poseta_task, func not registered: goto fallback with lc == NULL, where
\* lc->exec and lc->context are read: the read traps, or yields whatever is there
DispatchUnregistered(func, context) ==
    /\ ~regCrashed /\ dispatches < MaxDispatches
    /\ getCondition(cond, func) = <<>>
    /\ dispatches' = dispatches + 1
    /\ \/ regCrashed' = TRUE /\ UNCHANGED <<queued, wrapperRuns>>
       \/ /\ queued' = Append(queued, [func |-> Wild, context |-> Wild])
          /\ wrapperRuns' = Append(wrapperRuns, [own |-> context, used |-> Pending])
          /\ UNCHANGED regCrashed
    /\ lastCall' = [func |-> func, context |-> context, found |-> FALSE]
    /\ UNCHANGED <<cond, regCalls, registered, reRegistered>>
    /\ UNCHANGED outsideRegistry

dispatch_poseta_task(func, context) ==
    \/ DispatchRegistered(func, context)
    \/ DispatchUnregistered(func, context)

\* a monk runs the i-th queued pair, poseta_task(pt): in either order of treaty and
\* function it calls pt->func(pt->context), reading pt->context at that moment
RunPosetaTask(i) ==
    /\ ~regCrashed
    /\ queued[i].func = "poseta_task"
    /\ wrapperRuns[i].used = Pending
    /\ wrapperRuns' = [wrapperRuns EXCEPT
                         ![i].used = getCondition(cond, queued[i].context)[1].context]
    /\ UNCHANGED <<cond, regCalls, dispatches, queued, regCrashed, registered,
                   reRegistered, lastCall>>
    /\ UNCHANGED outsideRegistry

RegistryNext ==
    \/ \E func0, func1 \in Funcs : poseta_func1_if_func0(func0, func1)
    \/ \E func \in Funcs, context \in Contexts : dispatch_poseta_task(func, context)
    \/ \E i \in 1..Len(queued) : RunPosetaTask(i)

(***************************************************************************)
(* tcpip.c: tcpip_start, tcpip_start_client, tcpip_retrieve_packets        *)
(***************************************************************************)
\* invocations of the listening task that can be in progress at once, invocations
\* begun in all, listening tasks taken by two monks at once
MaxInvocations == 2
MaxUnits == 4
MaxDoubleRuns == 1
Invocations == 1..MaxInvocations
\* tcpSocket->trials = 3
InitTrials == 3
\* ENOTCONN, the errno tcpip_retrieve_packets retries on, and ECONNRESET
ENOTCONN == 107
ECONNRESET == 104
Errnos == {ENOTCONN, ECONNRESET}
\* what a recv returns: an error, the end of the stream, or bytes
RecvResults == {-1, 0, 1}
\* the size byte of a packet
Sizes == {0, 1}
\* the task functions dispatched for the socket
TaskFuncs == {"tcpip_start", "tcpip_start_client", "tcpip_retrieve_packets", "callbackIn"}

\* tcpip_get: no callback, three trials; nothing dispatched yet
ListenerInit ==
    /\ ltasks = [f \in TaskFuncs |-> 0]
    /\ lpc = [i \in Invocations |-> "idle"]
    /\ callbackIn = FALSE
    /\ trials = InitTrials
    /\ appStarted = FALSE
    /\ units = 0
    /\ doubleRuns = 0
    /\ recvErrors = 0
    /\ logged = 0
    /\ restarts = 0
    /\ pushes = 0
    /\ callbackDispatches = 0

\* dispatch_described_task(func, context, ...) for the socket
Dispatched(q, func) == [q EXCEPT ![func] = @ + 1]
\* a monk takes the task
Taken(q, func) == [q EXCEPT ![func] = @ - 1]
\* the invocations in progress
Listening == {i \in Invocations : lpc[i] # "idle"}
\* the free invocation with the lowest number
FirstIdle(i) == lpc[i] = "idle" /\ \A j \in Invocations : j < i => lpc[j] # "idle"

\* the application sets the callback (or leaves it NULL) and dispatches tcpip_start
add_channel(cb) ==
    /\ ~appStarted
    /\ appStarted' = TRUE
    /\ callbackIn' = cb
    /\ ltasks' = Dispatched(ltasks, "tcpip_start")
    /\ UNCHANGED <<lpc, trials, units, doubleRuns, recvErrors, logged, restarts, pushes,
                   callbackDispatches>>
    /\ UNCHANGED outsideListener

\* tcpip_start: dispatches the client task
tcpip_start ==
    /\ ltasks["tcpip_start"] > 0
    /\ ltasks' = Dispatched(Taken(ltasks, "tcpip_start"), "tcpip_start_client")
    /\ UNCHANGED <<lpc, callbackIn, trials, appStarted, units, doubleRuns, recvErrors,
                   logged, restarts, pushes, callbackDispatches>>
    /\ UNCHANGED outsideListener

\* tcpip_start_client: socket() fails and the task returns, or the listening task
\* is dispatched
tcpip_start_client ==
    /\ ltasks["tcpip_start_client"] > 0
    /\ \/ ltasks' = Taken(ltasks, "tcpip_start_client")
       \/ ltasks' = Dispatched(Taken(ltasks, "tcpip_start_client"),
                               "tcpip_retrieve_packets")
    /\ UNCHANGED <<lpc, callbackIn, trials, appStarted, units, doubleRuns, recvErrors,
                   logged, restarts, pushes, callbackDispatches>>
    /\ UNCHANGED outsideListener

\* a monk takes the callback task and runs it
RunCallbackIn ==
    /\ ltasks["callbackIn"] > 0
    /\ ltasks' = Taken(ltasks, "callbackIn")
    /\ UNCHANGED <<lpc, callbackIn, trials, appStarted, units, doubleRuns, recvErrors,
                   logged, restarts, pushes, callbackDispatches>>
    /\ UNCHANGED outsideListener

\* a monk takes a listening task and enters tcpip_retrieve_packets
ListenerClaim(i) ==
    /\ FirstIdle(i)
    /\ units < MaxUnits
    /\ ltasks["tcpip_retrieve_packets"] > 0
    /\ ltasks' = Taken(ltasks, "tcpip_retrieve_packets")
    /\ lpc' = [lpc EXCEPT ![i] = "recv1"]
    /\ units' = units + 1
    /\ UNCHANGED <<callbackIn, trials, appStarted, doubleRuns, recvErrors, logged,
                   restarts, pushes, callbackDispatches>>
    /\ UNCHANGED outsideListener

\* two monks take the same OPEN slot (find_task_and_change_state after a growth of
\* the task buffer) and both enter tcpip_retrieve_packets for the one task
ListenerClaimedTwice(i, j) ==
    /\ i # j /\ lpc[i] = "idle" /\ lpc[j] = "idle"
    /\ units + 1 < MaxUnits
    /\ doubleRuns < MaxDoubleRuns
    /\ ltasks["tcpip_retrieve_packets"] > 0
    /\ ltasks' = Taken(ltasks, "tcpip_retrieve_packets")
    /\ lpc' = [lpc EXCEPT ![i] = "recv1", ![j] = "recv1"]
    /\ units' = units + 2
    /\ doubleRuns' = doubleRuns + 1
    /\ UNCHANGED <<callbackIn, trials, appStarted, recvErrors, logged, restarts,
                   pushes, callbackDispatches>>
    /\ UNCHANGED outsideListener

\* the first recv and the switch on its result
Recv1(i, nofbytes, e) ==
    /\ lpc[i] = "recv1"
    /\ CASE nofbytes = -1 ->
              /\ recvErrors' = recvErrors + 1
              /\ logged' = logged + 1
              /\ lpc' = [lpc EXCEPT ![i] = "idle"]
              /\ IF e # ENOTCONN
                 THEN UNCHANGED <<trials, restarts, ltasks>>
                 ELSE /\ trials' = trials - 1
                      /\ IF trials - 1 = 0
                         THEN UNCHANGED <<restarts, ltasks>>
                         ELSE /\ restarts' = restarts + 1
                              /\ ltasks' = Dispatched(ltasks, "tcpip_start")
         [] nofbytes = 0 ->
              /\ recvErrors' = recvErrors + 1
              /\ logged' = logged + 1
              /\ restarts' = restarts + 1
              /\ ltasks' = Dispatched(ltasks, "tcpip_start")
              /\ lpc' = [lpc EXCEPT ![i] = "idle"]
              /\ UNCHANGED trials
         [] OTHER ->
              /\ lpc' = [lpc EXCEPT ![i] = "recv2"]
              /\ UNCHANGED <<recvErrors, logged, restarts, ltasks, trials>>
    /\ UNCHANGED <<callbackIn, appStarted, units, doubleRuns, pushes, callbackDispatches>>
    /\ UNCHANGED outsideListener

\* the recv of the size byte: nothing received or size 0 leads to the label loop
Recv2(i, nofbytes, size) ==
    /\ lpc[i] = "recv2"
    /\ lpc' = [lpc EXCEPT ![i] = IF nofbytes <= 0 \/ size = 0 THEN "loop" ELSE "recv3"]
    /\ UNCHANGED <<ltasks, callbackIn, trials, appStarted, units, doubleRuns, recvErrors,
                   logged, restarts, pushes, callbackDispatches>>
    /\ UNCHANGED outsideListener

\* the recv of the payload, whose result is not tested, and push(tcpSocket->inbox, msg)
Recv3Push(i, nofbytes) ==
    /\ lpc[i] = "recv3"
    /\ pushes' = pushes + 1
    /\ lpc' = [lpc EXCEPT ![i] = "callback"]
    /\ UNCHANGED <<ltasks, callbackIn, trials, appStarted, units, doubleRuns, recvErrors,
                   logged, restarts, callbackDispatches>>
    /\ UNCHANGED outsideListener

\* if (tcpSocket->callbackIn != NULL) dispatch_task(tcpSocket->callbackIn, context)
CallbackIn(i) ==
    /\ lpc[i] = "callback"
    /\ IF callbackIn
       THEN /\ ltasks' = Dispatched(ltasks, "callbackIn")
            /\ callbackDispatches' = callbackDispatches + 1
       ELSE UNCHANGED <<ltasks, callbackDispatches>>
    /\ lpc' = [lpc EXCEPT ![i] = "loop"]
    /\ UNCHANGED <<callbackIn, trials, appStarted, units, doubleRuns, recvErrors, logged,
                   restarts, pushes>>
    /\ UNCHANGED outsideListener

\* loop: dispatch_described_task(tcpip_retrieve_packets, context, ...)
Loop(i) ==
    /\ lpc[i] = "loop"
    /\ ltasks' = Dispatched(ltasks, "tcpip_retrieve_packets")
    /\ lpc' = [lpc EXCEPT ![i] = "return"]
    /\ UNCHANGED <<callbackIn, trials, appStarted, units, doubleRuns, recvErrors, logged,
                   restarts, pushes, callbackDispatches>>
    /\ UNCHANGED outsideListener

\* return NULL after the label loop; the monk sets the slot READY
ListenerReturn(i) ==
    /\ lpc[i] = "return"
    /\ lpc' = [lpc EXCEPT ![i] = "idle"]
    /\ UNCHANGED <<ltasks, callbackIn, trials, appStarted, units, doubleRuns, recvErrors,
                   logged, restarts, pushes, callbackDispatches>>
    /\ UNCHANGED outsideListener

tcpip_retrieve_packets(i) ==
    \/ ListenerClaim(i)
    \/ \E j \in Invocations : ListenerClaimedTwice(i, j)
    \/ \E nofbytes \in RecvResults, e \in Errnos : Recv1(i, nofbytes, e)
    \/ \E nofbytes \in RecvResults, size \in Sizes : Recv2(i, nofbytes, size)
    \/ \E nofbytes \in RecvResults : Recv3Push(i, nofbytes)
    \/ CallbackIn(i)
    \/ Loop(i)
    \/ ListenerReturn(i)

ListenerNext ==
    \/ \E cb \in BOOLEAN : add_channel(cb)
    \/ tcpip_start
    \/ tcpip_start_client
    \/ RunCallbackIn
    \/ \E i \in Invocations : tcpip_retrieve_packets(i)

(***************************************************************************)
(* tcpip.c: push, pop, count and move on two mailboxes                      *)
(***************************************************************************)
NBoxMsgs == 3
NBoxThreads == 2
BoxMsgs == 1..NBoxMsgs
BoxThreads == 1..NBoxThreads
\* the two struct TcpipMailbox objects of a socket
Boxes == {"inbox", "outbox"}

MoveInit ==
    /\ boxFirst = [b \in Boxes |-> NULL]
    /\ boxLast = [b \in Boxes |-> NULL]
    /\ boxNext = [m \in BoxMsgs |-> NULL]
    /\ boxLock = [b \in Boxes |-> {}]
    /\ bpc = [t \in BoxThreads |-> "idle"]
    /\ bsrc = [t \in BoxThreads |-> "inbox"]
    /\ bdest = [t \in BoxThreads |-> "inbox"]
    /\ bm = [t \in BoxThreads |-> NULL]
    /\ bresult = [t \in BoxThreads |-> 0]
    /\ boxPushed = {}
    /\ boxPopped = {}
    /\ boxSegv = FALSE
    /\ boxIdeal = [b \in Boxes |-> <<>>]
    /\ bexpect = [t \in BoxThreads |-> NULL]
    /\ bsnap = [t \in BoxThreads |-> NoSnap]

\* the return of any of the four functions: the locals are gone
BoxReturn(t) ==
    /\ bpc' = [bpc EXCEPT ![t] = "idle"]
    /\ bsrc' = [bsrc EXCEPT ![t] = "inbox"]
    /\ bdest' = [bdest EXCEPT ![t] = "inbox"]
    /\ bm' = [bm EXCEPT ![t] = NULL]
    /\ bresult' = [bresult EXCEPT ![t] = 0]
    /\ bexpect' = [bexpect EXCEPT ![t] = NULL]
    /\ bsnap' = [bsnap EXCEPT ![t] = NoSnap]

\* a move that leaves out Msrc->first->next = NULL
BoxMoveCutKeepsNext(t) ==
    /\ bpc[t] = "mv_cut"
    /\ bpc' = [bpc EXCEPT ![t] = "mv_first"]
    /\ UNCHANGED <<boxFirst, boxLast, boxNext, boxLock, bsrc, bdest, bm, bresult,
                   boxPushed, boxPopped, boxSegv, boxIdeal, bexpect, bsnap>>
    /\ UNCHANGED outsideMove

\* Msrc->first->next = NULL;
BoxMoveCut(t) ==
    /\ bpc[t] = "mv_cut"
    /\ boxNext' = [boxNext EXCEPT ![boxFirst[bsrc[t]]] = NULL]
    /\ bpc' = [bpc EXCEPT ![t] = "mv_first"]
    /\ UNCHANGED <<boxFirst, boxLast, boxLock, bsrc, bdest, bm, bresult, boxPushed,
                   boxPopped, boxSegv, boxIdeal, bexpect, bsnap>>
    /\ UNCHANGED outsideMove

\* push(M, m) on one of the two mailboxes, line by line
boxPush(t) ==
    /\ \/ /\ bpc[t] = "idle" /\ ~boxSegv
          /\ \E b \in Boxes : \E m \in BoxMsgs \ boxPushed :
                /\ \A u \in BoxThreads : bpc[u] = "push_lock" => bm[u] # m
                /\ bsrc' = [bsrc EXCEPT ![t] = b]
                /\ bm' = [bm EXCEPT ![t] = m]
          /\ bpc' = [bpc EXCEPT ![t] = "push_lock"]
          /\ UNCHANGED <<boxFirst, boxLast, boxNext, boxLock, bdest, bresult, boxPushed,
                         boxPopped, boxSegv, boxIdeal, bexpect, bsnap>>
       \* pthread_mutex_lock(M->lock) of push
       \/ /\ bpc[t] = "push_lock"
          /\ boxLock[bsrc[t]] = {}
          /\ boxLock' = [boxLock EXCEPT ![bsrc[t]] = {t}]
          /\ boxIdeal' = [boxIdeal EXCEPT ![bsrc[t]] = Append(@, bm[t])]
          /\ boxPushed' = boxPushed \cup {bm[t]}
          /\ bpc' = [bpc EXCEPT ![t] = "push_link"]
          /\ UNCHANGED <<boxFirst, boxLast, boxNext, bsrc, bdest, bm, bresult, boxPopped,
                         boxSegv, bexpect, bsnap>>
       \* if (M->first == NULL) M->first = m; else M->last->next = m;
       \/ /\ bpc[t] = "push_link"
          /\ IF boxFirst[bsrc[t]] = NULL
               THEN /\ boxFirst' = [boxFirst EXCEPT ![bsrc[t]] = bm[t]]
                    /\ UNCHANGED <<boxNext, boxSegv>>
               ELSE IF boxLast[bsrc[t]] = NULL
                      THEN boxSegv' = TRUE /\ UNCHANGED <<boxFirst, boxNext>>
                      ELSE /\ boxNext' = [boxNext EXCEPT ![boxLast[bsrc[t]]] = bm[t]]
                           /\ UNCHANGED <<boxFirst, boxSegv>>
          /\ bpc' = [bpc EXCEPT ![t] = "push_last"]
          /\ UNCHANGED <<boxLast, boxLock, bsrc, bdest, bm, bresult, boxPushed, boxPopped,
                         boxIdeal, bexpect, bsnap>>
       \* M->last = m;
       \/ /\ bpc[t] = "push_last" /\ ~boxSegv
          /\ boxLast' = [boxLast EXCEPT ![bsrc[t]] = bm[t]]
          /\ bpc' = [bpc EXCEPT ![t] = "push_next"]
          /\ UNCHANGED <<boxFirst, boxNext, boxLock, bsrc, bdest, bm, bresult, boxPushed,
                         boxPopped, boxSegv, boxIdeal, bexpect, bsnap>>
       \* m->next = NULL;
       \/ /\ bpc[t] = "push_next"
          /\ boxNext' = [boxNext EXCEPT ![bm[t]] = NULL]
          /\ bpc' = [bpc EXCEPT ![t] = "push_unlock"]
          /\ UNCHANGED <<boxFirst, boxLast, boxLock, bsrc, bdest, bm, bresult, boxPushed,
                         boxPopped, boxSegv, boxIdeal, bexpect, bsnap>>
       \* pthread_mutex_unlock(M->lock); and the return of push
       \/ /\ bpc[t] = "push_unlock"
          /\ boxLock' = [boxLock EXCEPT ![bsrc[t]] = {}]
          /\ BoxReturn(t)
          /\ UNCHANGED <<boxFirst, boxLast, boxNext, boxPushed, boxPopped, boxSegv, boxIdeal>>
    /\ UNCHANGED outsideMove

\* pop(M) on one of the two mailboxes, line by line
boxPop(t) ==
    /\ \/ /\ bpc[t] = "idle" /\ ~boxSegv
          /\ \E b \in Boxes : bsrc' = [bsrc EXCEPT ![t] = b]
          /\ bpc' = [bpc EXCEPT ![t] = "pop_lock"]
          /\ UNCHANGED <<boxFirst, boxLast, boxNext, boxLock, bdest, bm, bresult, boxPushed,
                         boxPopped, boxSegv, boxIdeal, bexpect, bsnap>>
       \* pthread_mutex_lock(M->lock) of pop
       \/ /\ bpc[t] = "pop_lock"
          /\ boxLock[bsrc[t]] = {}
          /\ boxLock' = [boxLock EXCEPT ![bsrc[t]] = {t}]
          /\ IF boxIdeal[bsrc[t]] = <<>>
               THEN UNCHANGED <<boxIdeal, bexpect, boxPopped>>
               ELSE /\ boxIdeal' = [boxIdeal EXCEPT ![bsrc[t]] = Tail(@)]
                    /\ bexpect' = [bexpect EXCEPT ![t] = Head(boxIdeal[bsrc[t]])]
                    /\ boxPopped' = boxPopped \cup {Head(boxIdeal[bsrc[t]])}
          /\ bpc' = [bpc EXCEPT ![t] = "pop_test"]
          /\ UNCHANGED <<boxFirst, boxLast, boxNext, bsrc, bdest, bm, bresult, boxPushed,
                         boxSegv, bsnap>>
       \* if (M->first == NULL) ...; struct TcpipMessage *m = M->first;
       \/ /\ bpc[t] = "pop_test"
          /\ bm' = [bm EXCEPT ![t] = boxFirst[bsrc[t]]]
          /\ bpc' = [bpc EXCEPT ![t] =
                       IF boxFirst[bsrc[t]] = NULL THEN "pop_unlock" ELSE "pop_advance"]
          /\ UNCHANGED <<boxFirst, boxLast, boxNext, boxLock, bsrc, bdest, bresult, boxPushed,
                         boxPopped, boxSegv, boxIdeal, bexpect, bsnap>>
       \* M->first = M->first->next;
       \/ /\ bpc[t] = "pop_advance"
          /\ boxFirst' = [boxFirst EXCEPT ![bsrc[t]] = boxNext[boxFirst[bsrc[t]]]]
          /\ bpc' = [bpc EXCEPT ![t] = "pop_cut"]
          /\ UNCHANGED <<boxLast, boxNext, boxLock, bsrc, bdest, bm, bresult, boxPushed,
                         boxPopped, boxSegv, boxIdeal, bexpect, bsnap>>
       \* m->next = NULL;
       \/ /\ bpc[t] = "pop_cut"
          /\ boxNext' = [boxNext EXCEPT ![bm[t]] = NULL]
          /\ bpc' = [bpc EXCEPT ![t] = "pop_unlock"]
          /\ UNCHANGED <<boxFirst, boxLast, boxLock, bsrc, bdest, bm, bresult, boxPushed,
                         boxPopped, boxSegv, boxIdeal, bexpect, bsnap>>
       \* pthread_mutex_unlock(M->lock); return m; (or return NULL;)
       \/ /\ bpc[t] = "pop_unlock"
          /\ boxLock' = [boxLock EXCEPT ![bsrc[t]] = {}]
          /\ BoxReturn(t)
          /\ UNCHANGED <<boxFirst, boxLast, boxNext, boxPushed, boxPopped, boxSegv, boxIdeal>>
    /\ UNCHANGED outsideMove

\* count(M), line by line
count(t) ==
    /\ \/ /\ bpc[t] = "idle" /\ ~boxSegv
          /\ \E b \in Boxes : bsrc' = [bsrc EXCEPT ![t] = b]
          /\ bpc' = [bpc EXCEPT ![t] = "count_lock"]
          /\ UNCHANGED <<boxFirst, boxLast, boxNext, boxLock, bdest, bm, bresult, boxPushed,
                         boxPopped, boxSegv, boxIdeal, bexpect, bsnap>>
       \* pthread_mutex_lock(M->lock); int result = 0; struct TcpipMessage *m = M->first;
       \/ /\ bpc[t] = "count_lock"
          /\ boxLock[bsrc[t]] = {}
          /\ boxLock' = [boxLock EXCEPT ![bsrc[t]] = {t}]
          /\ bresult' = [bresult EXCEPT ![t] = 0]
          /\ bm' = [bm EXCEPT ![t] = boxFirst[bsrc[t]]]
          /\ bpc' = [bpc EXCEPT ![t] = "count_walk"]
          /\ UNCHANGED <<boxFirst, boxLast, boxNext, bsrc, bdest, boxPushed, boxPopped,
                         boxSegv, boxIdeal, bexpect, bsnap>>
       \* while (m != NULL) { result++; m = m->next; }
       \/ /\ bpc[t] = "count_walk"
          /\ IF bm[t] # NULL
               THEN /\ bresult' = [bresult EXCEPT ![t] = @ + 1]
                    /\ bm' = [bm EXCEPT ![t] = boxNext[bm[t]]]
                    /\ UNCHANGED bpc
               ELSE /\ bpc' = [bpc EXCEPT ![t] = "count_unlock"]
                    /\ UNCHANGED <<bresult, bm>>
          /\ UNCHANGED <<boxFirst, boxLast, boxNext, boxLock, bsrc, bdest, boxPushed,
                         boxPopped, boxSegv, boxIdeal, bexpect, bsnap>>
       \* pthread_mutex_unlock(M->lock); return result;
       \/ /\ bpc[t] = "count_unlock"
          /\ boxLock' = [boxLock EXCEPT ![bsrc[t]] = {}]
          /\ BoxReturn(t)
          /\ UNCHANGED <<boxFirst, boxLast, boxNext, boxPushed, boxPopped, boxSegv, boxIdeal>>
    /\ UNCHANGED outsideMove

\* move(Msrc, Mdest), line by line
move(t) ==
    \/ /\ \/ /\ bpc[t] = "idle" /\ ~boxSegv
             /\ \E s \in Boxes, d \in Boxes :
                   /\ bsrc' = [bsrc EXCEPT ![t] = s]
                   /\ bdest' = [bdest EXCEPT ![t] = d]
             /\ bpc' = [bpc EXCEPT ![t] = "mv_lock_src"]
             /\ UNCHANGED <<boxFirst, boxLast, boxNext, boxLock, bm, bresult, boxPushed,
                            boxPopped, boxSegv, boxIdeal, bexpect, bsnap>>
          \* pthread_mutex_lock(Msrc->lock);
          \/ /\ bpc[t] = "mv_lock_src"
             /\ boxLock[bsrc[t]] = {}
             /\ boxLock' = [boxLock EXCEPT ![bsrc[t]] = {t}]
             /\ bpc' = [bpc EXCEPT ![t] = "mv_lock_dest"]
             /\ UNCHANGED <<boxFirst, boxLast, boxNext, bsrc, bdest, bm, bresult, boxPushed,
                            boxPopped, boxSegv, boxIdeal, bexpect, bsnap>>
          \* pthread_mutex_lock(Mdest->lock); with Mdest = Msrc the thread waits for itself
          \/ /\ bpc[t] = "mv_lock_dest"
             /\ boxLock[bdest[t]] = {}
             /\ boxLock' = [boxLock EXCEPT ![bdest[t]] = {t}]
             /\ IF boxIdeal[bsrc[t]] = <<>>
                  THEN UNCHANGED <<boxIdeal, bexpect>>
                  ELSE /\ boxIdeal' = [boxIdeal EXCEPT
                                         ![bsrc[t]] = Tail(@),
                                         ![bdest[t]] = Append(@, Head(boxIdeal[bsrc[t]]))]
                       /\ bexpect' = [bexpect EXCEPT ![t] = Head(boxIdeal[bsrc[t]])]
             /\ bsnap' = [bsnap EXCEPT ![t] = <<boxFirst, boxLast, boxNext>>]
             /\ bpc' = [bpc EXCEPT ![t] = "mv_test"]
             /\ UNCHANGED <<boxFirst, boxLast, boxNext, bsrc, bdest, bm, bresult, boxPushed,
                            boxPopped, boxSegv>>
          \* if (Msrc->first == NULL) { ... }  struct TcpipMessage *m = Msrc->first;
          \/ /\ bpc[t] = "mv_test"
             /\ bm' = [bm EXCEPT ![t] = boxFirst[bsrc[t]]]
             /\ bpc' = [bpc EXCEPT ![t] =
                          IF boxFirst[bsrc[t]] = NULL THEN "mv_unlock_dest" ELSE "mv_link"]
             /\ UNCHANGED <<boxFirst, boxLast, boxNext, boxLock, bsrc, bdest, bresult, boxPushed,
                            boxPopped, boxSegv, boxIdeal, bexpect, bsnap>>
          \* if (Mdest->first == NULL) Mdest->first = m; else Mdest->last->next = m;
          \/ /\ bpc[t] = "mv_link"
             /\ IF boxFirst[bdest[t]] = NULL
                  THEN /\ boxFirst' = [boxFirst EXCEPT ![bdest[t]] = bm[t]]
                       /\ UNCHANGED <<boxNext, boxSegv>>
                  ELSE IF boxLast[bdest[t]] = NULL
                         THEN boxSegv' = TRUE /\ UNCHANGED <<boxFirst, boxNext>>
                         ELSE /\ boxNext' = [boxNext EXCEPT ![boxLast[bdest[t]]] = bm[t]]
                              /\ UNCHANGED <<boxFirst, boxSegv>>
             /\ bpc' = [bpc EXCEPT ![t] = "mv_last"]
             /\ UNCHANGED <<boxLast, boxLock, bsrc, bdest, bm, bresult, boxPushed, boxPopped,
                            boxIdeal, bexpect, bsnap>>
          \* Mdest->last = m;
          \/ /\ bpc[t] = "mv_last" /\ ~boxSegv
             /\ boxLast' = [boxLast EXCEPT ![bdest[t]] = bm[t]]
             /\ bpc' = [bpc EXCEPT ![t] = "mv_next"]
             /\ UNCHANGED <<boxFirst, boxNext, boxLock, bsrc, bdest, bm, bresult, boxPushed,
                            boxPopped, boxSegv, boxIdeal, bexpect, bsnap>>
          \* m = Msrc->first->next;
          \/ /\ bpc[t] = "mv_next"
             /\ bm' = [bm EXCEPT ![t] = boxNext[boxFirst[bsrc[t]]]]
             /\ bpc' = [bpc EXCEPT ![t] = "mv_cut"]
             /\ UNCHANGED <<boxFirst, boxLast, boxNext, boxLock, bsrc, bdest, bresult, boxPushed,
                            boxPopped, boxSegv, boxIdeal, bexpect, bsnap>>
          \* Msrc->first = m;
          \/ /\ bpc[t] = "mv_first"
             /\ boxFirst' = [boxFirst EXCEPT ![bsrc[t]] = bm[t]]
             /\ bpc' = [bpc EXCEPT ![t] = "mv_unlock_dest"]
             /\ UNCHANGED <<boxLast, boxNext, boxLock, bsrc, bdest, bm, bresult, boxPushed,
                            boxPopped, boxSegv, boxIdeal, bexpect, bsnap>>
          \* pthread_mutex_unlock(Mdest->lock);
          \/ /\ bpc[t] = "mv_unlock_dest"
             /\ boxLock' = [boxLock EXCEPT ![bdest[t]] = {}]
             /\ bpc' = [bpc EXCEPT ![t] = "mv_unlock_src"]
             /\ UNCHANGED <<boxFirst, boxLast, boxNext, bsrc, bdest, bm, bresult, boxPushed,
                            boxPopped, boxSegv, boxIdeal, bexpect, bsnap>>
          \* pthread_mutex_unlock(Msrc->lock); and the return of move
          \/ /\ bpc[t] = "mv_unlock_src"
             /\ boxLock' = [boxLock EXCEPT ![bsrc[t]] = {}]
             /\ BoxReturn(t)
             /\ UNCHANGED <<boxFirst, boxLast, boxNext, boxPushed, boxPopped, boxSegv, boxIdeal>>
       /\ UNCHANGED outsideMove
    \/ BoxMoveCut(t)

MoveNext == \E t \in BoxThreads : boxPush(t) \/ boxPop(t) \/ count(t) \/ move(t)

\* the messages of mailbox b, as count walks them
RECURSIVE BoxChain(_, _)
BoxChain(m, fuel) ==
    IF m = NULL \/ fuel = 0 THEN <<>> ELSE <<m>> \o BoxChain(boxNext[m], fuel - 1)

BoxContent(b) == BoxChain(boxFirst[b], NBoxMsgs + 1)

(***************************************************************************)
(* tcpip.c: tcpip_send_packets and the outbox of one socket                 *)
(***************************************************************************)
\* messages the application pushes, send tasks that can be in progress at once,
\* send tasks taken by two monks at once
MaxOutMsgs == 3
MaxSenders == 2
MaxSendDoubleRuns == 1
Senders == 1..MaxSenders

SendInit ==
    /\ outbox = <<>>
    /\ sendTasks = 0
    /\ gpc = "push"
    /\ outPushes = 0
    /\ spc = [i \in Senders |-> "idle"]
    /\ smsg = [i \in Senders |-> NULL]
    /\ outPops = 0
    /\ emptyPops = 0
    /\ sendSegv = FALSE
    /\ sendDoubleRuns = 0

\* the application, as generate does for msgA and msgB: push(lsock_dest->outbox, msg);
\* dispatch_described_task(tcpip_send_packets, (void*)lsock_dest, "send packets");
generate ==
    /\ ~sendSegv
    /\ \/ /\ gpc = "push" /\ outPushes < MaxOutMsgs
          /\ outbox' = Append(outbox, outPushes + 1)
          /\ outPushes' = outPushes + 1
          /\ gpc' = "dispatch"
          /\ UNCHANGED sendTasks
       \/ /\ gpc = "dispatch"
          /\ sendTasks' = sendTasks + 1
          /\ gpc' = "push"
          /\ UNCHANGED <<outbox, outPushes>>
    /\ UNCHANGED <<spc, smsg, outPops, emptyPops, sendSegv, sendDoubleRuns>>
    /\ UNCHANGED outsideSend

\* a monk takes a send task and enters tcpip_send_packets
SendClaim(i) ==
    /\ ~sendSegv
    /\ spc[i] = "idle"
    /\ sendTasks > 0
    /\ sendTasks' = sendTasks - 1
    /\ spc' = [spc EXCEPT ![i] = "pop"]
    /\ UNCHANGED <<outbox, gpc, outPushes, smsg, outPops, emptyPops, sendSegv,
                   sendDoubleRuns>>
    /\ UNCHANGED outsideSend

\* two monks take the same OPEN slot (find_task_and_change_state after a growth of
\* the task buffer) and both enter tcpip_send_packets for the one task
SendClaimedTwice(i, j) ==
    /\ ~sendSegv
    /\ i # j /\ spc[i] = "idle" /\ spc[j] = "idle"
    /\ sendDoubleRuns < MaxSendDoubleRuns
    /\ sendTasks > 0
    /\ sendTasks' = sendTasks - 1
    /\ spc' = [spc EXCEPT ![i] = "pop", ![j] = "pop"]
    /\ sendDoubleRuns' = sendDoubleRuns + 1
    /\ UNCHANGED <<outbox, gpc, outPushes, smsg, outPops, emptyPops, sendSegv>>
    /\ UNCHANGED outsideSend

\* tcpip_send_packets(context) from its pop on
tcpip_send_packets(i) ==
    /\ ~sendSegv
    /\ \/ \* msg = pop(tcpSocket->outbox);
          /\ spc[i] = "pop"
          /\ outPops' = outPops + 1
          /\ IF outbox = <<>>
             THEN /\ smsg' = [smsg EXCEPT ![i] = NULL]
                  /\ emptyPops' = emptyPops + 1
                  /\ UNCHANGED outbox
             ELSE /\ smsg' = [smsg EXCEPT ![i] = Head(outbox)]
                  /\ outbox' = Tail(outbox)
                  /\ UNCHANGED emptyPops
          /\ spc' = [spc EXCEPT ![i] = "send"]
          /\ UNCHANGED sendSegv
       \/ \* if (msg == NULL) tprintf(..); tprintmsg(msg, ..); send(.., msg->payload,
          \* msg->size, 0): with msg == NULL the reads go through the NULL pointer and
          \* trap, or yield whatever is there;
          \* then the returns on retval, or freemsg(msg) and the return
          /\ spc[i] = "send"
          /\ sendSegv' \in (IF smsg[i] = NULL THEN BOOLEAN ELSE {FALSE})
          /\ smsg' = [smsg EXCEPT ![i] = NULL]
          /\ spc' = [spc EXCEPT ![i] = "idle"]
          /\ UNCHANGED <<outbox, outPops, emptyPops>>
    /\ UNCHANGED <<sendTasks, gpc, outPushes, sendDoubleRuns>>
    /\ UNCHANGED outsideSend

SendNext ==
    \/ generate
    \/ \E i \in Senders : SendClaim(i)
    \/ \E i \in Senders, j \in Senders : SendClaimedTwice(i, j)
    \/ \E i \in Senders : tcpip_send_packets(i)

(***************************************************************************)
(* abbey.c, poseta.c, ptreaty.c: the two wrappers of a pair on a pool of    *)
(* monkCount monks                                                          *)
(***************************************************************************)
\* the largest monkCount the application passes to initialize_abbey
MaxMonkCount == 3
\* the wrapper of func0 (order 0) and the wrapper of func1 (order 1)
Pair == {"A", "B"}
\* the wrappers a monk is working on: amountOfMonksBusy
Working == {w \in Pair : ppc[w] \notin {"none", "queued", "done"}}

\* before initialize_abbey; poseta_func1_if_func0(A, B) has run ptreaty_init(pt0->st)
PoolInit ==
    /\ poolMonks = 0
    /\ poolQueue = <<>>
    /\ ppc = [w \in Pair |-> "none"]
    /\ preq = {}
    /\ pbat = {}
    /\ psig = {}

\* initialize_abbey(monkCount, taskBuffer)
PoolInitialize(monkCount) ==
    /\ poolMonks = 0
    /\ poolMonks' = monkCount
    /\ UNCHANGED <<poolQueue, ppc, preq, pbat, psig>>
    /\ UNCHANGED outsidePool

\* dispatch_poseta_task(w, ..): poseta_task is dispatched with the PosetaTask of w and
\* takes the first READY slot
PoolDispatch(w) ==
    /\ poolMonks > 0
    /\ ppc[w] = "none"
    /\ ppc' = [ppc EXCEPT ![w] = "queued"]
    /\ poolQueue' = Append(poolQueue, w)
    /\ UNCHANGED <<poolMonks, preq, pbat, psig>>
    /\ UNCHANGED outsidePool

\* monk: find_task_and_change_state(TS_OPEN, TS_BUSY, 1) by a monk that works on
\* nothing, amountOfMonksBusy++, and poseta_task is entered: if (!pt->order)
PoolTake ==
    /\ Cardinality(Working) < poolMonks
    /\ poolQueue # <<>>
    /\ poolQueue' = Tail(poolQueue)
    /\ ppc' = [ppc EXCEPT ![Head(poolQueue)] =
                 IF Head(poolQueue) = "A" THEN "func" ELSE "later_try"]
    /\ UNCHANGED <<poolMonks, preq, pbat, psig>>
    /\ UNCHANGED outsidePool

\* poseta_task with order 0: pt->func(pt->context); pt->treaty(pt->st) with
\* ptreaty_should_be_first line by line
PoolFirst ==
    /\ \/ /\ ppc["A"] = "func"
          /\ ppc' = [ppc EXCEPT !["A"] = "first_lock"]
          /\ UNCHANGED <<preq, pbat, psig>>
       \* pthread_mutex_lock(st->request);
       \/ /\ ppc["A"] = "first_lock"
          /\ preq = {}
          /\ preq' = {"A"}
          /\ ppc' = [ppc EXCEPT !["A"] = "first_broadcast"]
          /\ UNCHANGED <<pbat, psig>>
       \* pthread_cond_broadcast(st->signal);
       \/ /\ ppc["A"] = "first_broadcast"
          /\ psig' = {}
          /\ ppc' = [w \in Pair |-> IF w = "A" THEN "first_probe"
                                    ELSE IF w \in psig THEN "relock" ELSE ppc[w]]
          /\ UNCHANGED <<preq, pbat>>
       \* if (pthread_mutex_trylock(st->baton) == EBUSY) { unlock request; return; }
       \* pthread_mutex_unlock(st->baton);
       \/ /\ ppc["A"] = "first_probe"
          /\ IF pbat # {} THEN preq' = {} ELSE UNCHANGED preq
          /\ ppc' = [ppc EXCEPT !["A"] = "ready"]
          /\ UNCHANGED <<pbat, psig>>
    /\ UNCHANGED poolMonks
    /\ UNCHANGED poolQueue
    /\ UNCHANGED outsidePool

\* poseta_task with order 1: pt->treaty(pt->st) with ptreaty_should_be_later line by
\* line; pt->func(pt->context)
PoolLater ==
    /\ \/ \* if (pthread_mutex_trylock(st->request) == EBUSY) {} else
          /\ ppc["B"] = "later_try"
          /\ IF preq # {}
             THEN ppc' = [ppc EXCEPT !["B"] = "func"] /\ UNCHANGED preq
             ELSE ppc' = [ppc EXCEPT !["B"] = "later_baton"] /\ preq' = {"B"}
          /\ UNCHANGED <<pbat, psig>>
       \* pthread_mutex_lock(st->baton);
       \/ /\ ppc["B"] = "later_baton"
          /\ pbat = {}
          /\ pbat' = {"B"}
          /\ ppc' = [ppc EXCEPT !["B"] = "later_wait"]
          /\ UNCHANGED <<preq, psig>>
       \* pthread_cond_wait(st->signal, st->request): releases the request and blocks
       \/ /\ ppc["B"] = "later_wait"
          /\ preq' = {}
          /\ psig' = {"B"}
          /\ ppc' = [ppc EXCEPT !["B"] = "waiting"]
          /\ UNCHANGED pbat
       \* the end of pthread_cond_wait: the request is re-acquired
       \/ /\ ppc["B"] = "relock"
          /\ preq = {}
          /\ preq' = {"B"}
          /\ ppc' = [ppc EXCEPT !["B"] = "func"]
          /\ UNCHANGED <<pbat, psig>>
       \* pt->func(pt->context)
       \/ /\ ppc["B"] = "func"
          /\ ppc' = [ppc EXCEPT !["B"] = "ready"]
          /\ UNCHANGED <<preq, pbat, psig>>
    /\ UNCHANGED poolMonks
    /\ UNCHANGED poolQueue
    /\ UNCHANGED outsidePool

\* a pthread_cond_wait that returns although nobody broadcast
PoolSpuriousWakeup ==
    /\ ppc["B"] = "waiting" /\ "B" \in psig
    /\ psig' = {}
    /\ ppc' = [ppc EXCEPT !["B"] = "relock"]
    /\ UNCHANGED <<poolMonks, poolQueue, preq, pbat>>
    /\ UNCHANGED outsidePool

\* monk after the task: set_task_state(taskId, TS_READY);
\* if (amountOfMonksBusy >= nofMonks) addMonk(NULL); amountOfMonksBusy--
PoolFinish(w) ==
    /\ ppc[w] = "ready"
    /\ poolMonks' = IF Cardinality(Working) >= poolMonks THEN poolMonks + 1 ELSE poolMonks
    /\ ppc' = [ppc EXCEPT ![w] = "done"]
    /\ UNCHANGED <<poolQueue, preq, pbat, psig>>
    /\ UNCHANGED outsidePool

PoolNext ==
    \/ \E monkCount \in 1..MaxMonkCount : PoolInitialize(monkCount)
    \/ \E w \in Pair : PoolDispatch(w)
    \/ PoolTake
    \/ PoolFirst
    \/ PoolLater
    \/ PoolSpuriousWakeup
    \/ \E w \in Pair : PoolFinish(w)

(***************************************************************************)
(* The specifications: one per part, the other parts stand still           *)
(***************************************************************************)
vars == <<abbeyVars, treatyVars, mailboxVars, registryVars, listenerVars, moveVars,
         sendVars, poolVars>>

Init ==
    /\ AbbeyInit /\ TreatyInit /\ MailboxInit /\ RegistryInit /\ ListenerInit
    /\ MoveInit /\ SendInit /\ PoolInit

Spec == Init /\ [][AbbeyNext]_vars

TreatySpec == Init /\ [][TreatyNext]_vars

MailboxSpec == Init /\ [][MailboxNext]_vars

RegistrySpec == Init /\ [][RegistryNext]_vars

ListenerSpec == Init /\ [][ListenerNext]_vars

NxSpec == Init /\ [][NxNext]_vars

MoveSpec == Init /\ [][MoveNext]_vars

SendSpec == Init /\ [][SendNext]_vars

\* every thread that can take a step takes one; a spurious wakeup is never due
PoolFairness ==
    /\ WF_vars(\E monkCount \in 1..MaxMonkCount : PoolInitialize(monkCount))
    /\ \A w \in Pair : WF_vars(PoolDispatch(w))
    /\ WF_vars(PoolTake)
    /\ WF_vars(PoolFirst)
    /\ WF_vars(PoolLater)
    /\ \A w \in Pair : WF_vars(PoolFinish(w))

PoolSpec == Init /\ [][PoolNext]_vars /\ PoolFairness

\* func has been entered / has returned in the wrapper t
Started(t) == tpc[t] \in {"in_func", "first_lock", "first_broadcast", "first_probe",
                          "first_unlock"} \/ (tpc[t] = "done")
Returned(t) == Started(t) /\ tpc[t] # "in_func"

\* the monks that claimed a slot (OPEN -> BUSY) and have not released it yet
Holding(m) == pc[m] \in {"inc_read", "call", "deref", "deref_stale", "running", "running1",
                          "ready"}

\* every monk waits for work and the dispatcher has handed over all its jobs
Quiescent ==
    /\ pc[Main] = "done"
    /\ \A m \in monks : pc[m] = "wait"

\* C1: every dispatched job's function is invoked with its own context exactly once:
\* never twice, and once for all jobs by the time the pool has gone idle
C1_EveryTaskRunsExactlyOnce ==
    /\ \A j \in Jobs : invoked[j] <= 1
    /\ Quiescent => \A j \in Jobs : invoked[j] = 1

\* C2: no slot is held (claimed and not yet released) by two monks at the same time
C2_OneWorkerPerBusySlot ==
    \A m1, m2 \in monks :
        (m1 # m2 /\ Holding(m1) /\ Holding(m2)) => taskId[m1] # taskId[m2]

\* C3: func1 (wrapper B) is not entered before func0 (wrapper A) has returned
C3_LaterStartsAfterFirstReturned == Started("wrapB") => Returned("wrapA")

\* C4: once finalize has gone through ptreaty_make_m_run, its signal is pending in
\* the predicate or main has returned from ptreaty_wait
C4_EarlySignalRemembered ==
    tpc["finalize"] = "done" => (predicate["eosim"] > 0 \/ tpc["main"] = "returned")

\* C5: after an instant at which all W workers were executing, the next function is
\* invoked only when nofMonks has become at least W + 1
C5_PoolGrowsWhenSaturated ==
    monksAtLaterStart # 0 => monksAtLaterStart >= allBusyAt + 1

\* C6: the dispatcher is never put to wait on abbeyCond
C6_DispatcherNeverWaits == Main \notin abbeyCond

\* C7: slots 0 and 1 are READY in every state and the dispatcher's READY -> CREATING
\* search never picks one of them
C7_ReservedSlotsUntouched ==
    /\ \A i \in 0..(ReservedSlots - 1) : task[i].state = TS_READY
    /\ pc[Main] \in {"claim", "fill", "open"} => taskId[Main] >= ReservedSlots

\* C8: the tuple job occupies one slot and one worker: f0 and f1 are each entered
\* once, and the slot is BUSY for as long as a monk is inside f0 or f1
C8_TupleOneSlotOneWorker ==
    /\ invoked[TupleJob] <= 1 /\ invoked1 <= 1
    /\ \A m \in monks :
          (cur[m] = TupleJob /\ pc[m] \in {"running", "running1"})
              => task[taskId[m]].state = TS_BUSY

\* C9: the pops take the pushed messages out in the order their pushes were applied,
\* each message at most once, and none is lost: whenever no operation holds the lock,
\* the messages popped so far followed by the content of the mailbox are the pushed
\* messages in push order; no two threads hold the same message as their pop's result
C9_MailboxFifo ==
    /\ ~segv
    /\ Len(popped) <= Len(applied)
    /\ popped = SubSeq(applied, 1, Len(popped))
    /\ lock = {} => popped \o Content = applied
    /\ \A t1, t2 \in MailThreads : (t1 # t2 /\ ret[t1] \in Msgs) => ret[t1] # ret[t2]

\* C9 witness: all messages were pushed and popped, by pops of two different threads
C9_Witness ==
    /\ Len(popped) = NMsgs
    /\ \E t1, t2 \in MailThreads : t1 # t2 /\ ret[t1] \in Msgs /\ ret[t2] \in Msgs

\* C10: a pop that found the mailbox empty returns NULL, leaves the lock free and
\* first, last and every next field as it found them; and once a pop has returned
\* NULL the mailbox still holds exactly the messages pushed and not yet popped, in
\* push order, so that a later push followed by a pop returns the pushed message
C10_PopOnEmptyReturnsNull ==
    /\ [][\A t \in MailThreads :
            (mpc[t] = "pop_unlock" /\ mpc'[t] = "idle" /\ snap[1] = NULL)
                => /\ ret'[t] = NULL
                   /\ lock' = {}
                   /\ <<first', last', msgNext'>> = snap]_vars
    /\ []((emptyPopAt >= 0 /\ lock = {}) => popped \o Content = applied)

\* C10 witness: a pop returned NULL on a mailbox emptied by earlier pops, and a
\* message pushed after that has been popped
C10_Witness == emptyPopAt >= 1 /\ Len(popped) > emptyPopAt

\* C11: the registry holds no two conditions with the same name, and the lookup of
\* every function that was registered returns a condition with the role and the
\* channel of its first registration and poseta_task as wrapper
C11_RegisteredOnce ==
    /\ \A i, j \in 1..Len(cond) : i # j => cond[i].name # cond[j].name
    /\ \A f \in Funcs :
          registered[f] # NoEntry =>
              /\ getCondition(cond, f) # <<>>
              /\ getCondition(cond, f)[1].condition_index = registered[f].condition_index
              /\ getCondition(cond, f)[1].st = registered[f].st
              /\ getCondition(cond, f)[1].exec = "poseta_task"

\* C11 witness: a function was registered a second time
C11_Witness == reRegistered /\ Len(cond) >= 2

\* C12: after dispatch_poseta_task of a function without a condition the process is
\* alive and the last pair handed to the scheduler is the function itself with the
\* context of the call
C12_UnregisteredFallsBack ==
    ~lastCall.found =>
        /\ ~regCrashed
        /\ queued # <<>>
        /\ queued[Len(queued)] = [func |-> lastCall.func, context |-> lastCall.context]

\* C13: a growth attempt whose reallocation fails leaves the task table as it was
\* before the attempt: every step of increaseTaskBuffer that does not raise nofTasks
\* keeps the slots, ends with the reserved-slot boundary at ReservedSlots, and
\* aborts nothing
C13_FailedGrowthLeavesTable ==
    [][\A t \in Threads :
         (pc[t] = "grow" /\ pc'[t] = "scan" /\ nofTasks' = nofTasks)
             => (task' = task /\ dedicatedTaskBuffer' = ReservedSlots /\ ~aborted')]_vars

\* C14: ptreaty_make_m_run_once has returned at most as many times as the waiter's
\* ptreaty_wait has consumed a signal and as ptreaty_has_run has been called
C14_RunOnceReturnsAfterAck ==
    /\ onceReturns <= waits["sync"]
    /\ onceReturns <= acks

\* C15: wrapper B is past ptreaty_should_be_later only when wrapper A has got as far
\* as ptreaty_should_be_first
C15_LaterReturnsAfterFirstEntered ==
    tpc["wrapB"] \in {"func", "in_func", "done"} => tpc["wrapA"] \notin {"func", "in_func"}

\* C16: on every channel the predicate is the number of increments minus the number
\* of completed waits and is not negative, the completed waits do not exceed the
\* increments, and every return of ptreaty_wait happens with predicate > 0 and takes
\* exactly one off it
C16_PredicateCountsSignals ==
    /\ [](\A c \in Channels :
            /\ predicate[c] >= 0
            /\ waits[c] <= incs[c]
            /\ predicate[c] = (incs[c] - waits[c]) % PredicateMod)
    /\ [][\A t \in TreatyThreads :
            (tpc[t] # "returned" /\ tpc'[t] = "returned")
                => /\ predicate[St(t)] > 0
                   /\ predicate'[St(t)] = predicate[St(t)] - 1
                   /\ waits'[St(t)] = waits[St(t)] + 1]_vars

\* C16 witness: the waiter has completed every one of its waits, one of them after
\* a wakeup nobody signalled
C16_Witness == waits["sync"] = MaxRounds /\ "waiter" \in spurious

\* C17: the second run of wrapper A, dispatched after the round of the pair is
\* complete, finds the request free when it stands at pthread_mutex_lock(st->request)
\* in ptreaty_should_be_first (no thread is left that would release it)
C17_SecondRoundCompletes ==
    tpc["wrapA2"] = "first_lock" => request["st"] = {}

\* C18: whenever no invocation of tcpip_retrieve_packets is in progress, every first
\* recv that returned -1 or 0 has been logged and has dispatched tcpip_start
C18_ReceiveErrorRestarts ==
    Listening = {} => (logged = recvErrors /\ restarts = recvErrors)

\* C19: at most one listening task of the socket is pending or in progress, and
\* with callbackIn registered and no invocation in progress the callbackIn
\* dispatches are as many as the pushes to the inbox
C19_OneListenerPerSocket ==
    /\ ltasks["tcpip_retrieve_packets"] + Cardinality(Listening) <= 1
    /\ (callbackIn /\ Listening = {}) => callbackDispatches = pushes

\* C20: each pair elinda registers (tcpip_started/init0, boot/generate_all,
\* connect_to_3dsim/reincarnate) has a channel of its own and runs the protocol of
\* the wrappers A and B: no step enters the function of wrapper B unless the
\* function of wrapper A has returned
C20_ElindaDependenciesHold ==
    [][(tpc["wrapB"] = "func" /\ tpc'["wrapB"] = "in_func") => Returned("wrapA")]_vars

\* C21: the value dispatch_described_task returns is the index of the slot the call
\* claimed, filled and published
C21_DispatchReturnsTaskId ==
    [][(pc[Main] = "open" /\ pc'[Main] # "open") => DispatchResult = taskId[Main]]_vars

\* C22: every step that changes the state of a slot takes it READY->CREATING or
\* CREATING->OPEN by the dispatcher working on that slot, OPEN->BUSY by a monk
\* claiming it, or BUSY->READY by the monk that holds it after its function returned
C22_OnlyLifecycleTransitions ==
    [][\A i \in 0..(nofTasks - 1) :
         task'[i].state # task[i].state =>
            \/ /\ task[i].state = TS_READY /\ task'[i].state = TS_CREATING
               /\ pc[Main] = "claim" /\ taskId[Main] = i
            \/ /\ task[i].state = TS_CREATING /\ task'[i].state = TS_OPEN
               /\ pc[Main] = "open" /\ taskId[Main] = i
            \/ /\ task[i].state = TS_OPEN /\ task'[i].state = TS_BUSY
               /\ \E m \in monks : pc[m] = "claim" /\ pc'[m] = "inc_read" /\ taskId[m] = i
            \/ /\ task[i].state = TS_BUSY /\ task'[i].state = TS_READY
               /\ \E m \in monks : pc[m] = "ready" /\ pc'[m] # "ready" /\ taskId[m] = i]_vars

\* C23: a thread that scans the slot states, is about to write a slot state and
\* unlock, or resizes the task array or the worker array holds abbeyMutex
C23_ScanWriteResizeUnderMutex ==
    \A t \in Threads :
        pc[t] \in {"scan", "claim", "nomatch", "grow", "add"} => abbeyMutex = {t}

\* C24: nofMonks never decreases, and a step that raises it raises it by one, is
\* taken by a monk that found amountOfMonksBusy >= nofMonks after its task, and
\* starts exactly one more worker thread
C24_PoolGrowsByOneStartedWorker ==
    [][/\ nofMonks' >= nofMonks
       /\ nofMonks' # nofMonks =>
             /\ nofMonks' = nofMonks + 1
             /\ \E m \in monks : pc[m] = "add" /\ pc'[m] # "add"
             /\ Cardinality(monks') = Cardinality(monks) + 1]_vars

\* C25: no published slot is left behind: when the dispatcher has handed over all
\* its jobs and every worker is blocked on abbeyCond, no slot is OPEN
C25_OpenSlotGetsClaimed ==
    (~aborted /\ Quiescent) => \A i \in 0..(nofTasks - 1) : task[i].state # TS_OPEN

\* C26: a step that changes nofTasks adds taskBufferContent to it, leaves every
\* existing slot as it was, and leaves no monk with the address of the array that was
\* given back, so that the monk still calls the task of the slot it claimed
C26_GrowthKeepsClaimedSlots ==
    [][nofTasks' # nofTasks =>
          /\ nofTasks' = nofTasks + taskBufferContent
          /\ \A i \in 0..(nofTasks - 1) : task'[i] = task[i]
          /\ \A m \in monks : pc'[m] # "deref_stale"]_vars

\* C27: while the thread it signals has not hoisted its flag (so it is not waiting),
\* the thread calling ptreaty_make_m_run_nx is never blocked: neither on the baton
\* nor in the wait for an acknowledgement
C27_RunNxReturnsWhenNobodyWaits ==
    tpc["nxwaiter"] = "hoist" => tpc["nx"] \notin {"once_lock", "ack_waiting", "ack_relock"}

\* C28: move(Msrc, Mdest) is atomic. Whenever the lock of a mailbox is free, the
\* mailbox holds exactly the messages it would hold had every push, pop and move
\* taken one step at the moment it held its locks (a move taking the head of Msrc to
\* the tail of Mdest, or nothing from an empty Msrc); count returns the length and
\* pop the head of that state; the two mailboxes together hold the pushed messages
\* that were not popped; and a move from an empty source leaves every field as it
\* was when the move got both locks.
C28_MoveIsAtomic ==
    /\ ~boxSegv
    /\ \A b \in Boxes : boxLock[b] = {} => BoxContent(b) = boxIdeal[b]
    /\ \A t \in BoxThreads :
          /\ bpc[t] = "count_unlock" => bresult[t] = Len(boxIdeal[bsrc[t]])
          /\ bpc[t] = "pop_unlock" => bm[t] = bexpect[t]
          /\ bpc[t] = "mv_unlock_src" => BoxContent(bsrc[t]) = boxIdeal[bsrc[t]]
          /\ bpc[t] = "mv_unlock_dest" =>
                /\ BoxContent(bsrc[t]) = boxIdeal[bsrc[t]]
                /\ BoxContent(bdest[t]) = boxIdeal[bdest[t]]
                /\ bexpect[t] = NULL => <<boxFirst, boxLast, boxNext>> = bsnap[t]
                /\ bexpect[t] # NULL =>
                      /\ boxLast[bdest[t]] = bexpect[t]
                      /\ boxNext[bexpect[t]] = NULL
    /\ (\A b \in Boxes : boxLock[b] = {}) =>
          Len(BoxContent("inbox")) + Len(BoxContent("outbox"))
             = Cardinality(boxPushed \ boxPopped)

\* a move has taken the head of a source that keeps a message to the tail of a
\* destination that held one already, while the other thread waits for one of the
\* two locks to push, pop or count
C28_Witness ==
    \E t \in BoxThreads, u \in BoxThreads :
        /\ bpc[t] = "mv_unlock_dest"
        /\ bexpect[t] # NULL
        /\ bsrc[t] # bdest[t]
        /\ BoxContent(bsrc[t]) # <<>>
        /\ Len(BoxContent(bdest[t])) >= 2
        /\ bpc[u] \in {"push_lock", "pop_lock", "count_lock"}

\* C29: every condition of the registry with the later role (condition_index 1)
\* is on the sync channel of a condition with the first role (condition_index 0)
C29_LaterSharesChannelWithFirst ==
    \A i \in 1..Len(cond) :
        cond[i].condition_index = 1 =>
            \E j \in 1..Len(cond) :
                cond[j].condition_index = 0 /\ cond[j].st = cond[i].st

\* C30: every wrapper that has run passed to its function the context of the
\* dispatch_poseta_task call that queued it
C30_WrapperGetsOwnContext ==
    \A i \in 1..Len(wrapperRuns) :
        wrapperRuns[i].used # Pending => wrapperRuns[i].used = wrapperRuns[i].own

\* C37: two concurrent calls move(A, B) and move(B, A) both terminate: they are
\* never each holding the lock of its source while waiting for the lock of its
\* destination, which the other one holds
C37_OppositeMovesTerminate ==
    \A t \in BoxThreads, u \in BoxThreads :
        ~ /\ t # u
          /\ bpc[t] = "mv_lock_dest" /\ bpc[u] = "mv_lock_dest"
          /\ bsrc[t] # bdest[t]
          /\ bsrc[u] = bdest[t] /\ bdest[u] = bsrc[t]
          /\ boxLock[bsrc[t]] = {t} /\ boxLock[bsrc[u]] = {u}

\* C34: a step of addMonk that starts a worker stores its handle at threadId[nofMonks]
\* (nofMonks as incremented by the step), an index below the number of handles the
\* array was reallocated to hold, and leaves nofMonks equal to the number of worker
\* threads created so far
C34_HandleStoredInsideArray ==
    [][(\E m \in monks : pc[m] = "add" /\ pc'[m] # "add"
                           /\ Cardinality(monks') = Cardinality(monks) + 1)
        => /\ nofMonks' < ThreadIdSlots(nofMonks)
           /\ nofMonks' = Cardinality(monks')]_vars

\* the monks whose amountOfMonksBusy++ has stored and whose amountOfMonksBusy-- has not
Counted == {m \in monks : pc[m] \in {"deref", "deref_stale", "running", "running1",
                                      "ready", "add", "dec_read", "dec_write"}}

\* C33: amountOfMonksBusy is the number of workers that have counted themselves in
\* after claiming a slot and have not counted themselves out after their saturation
\* check, and it lies between 0 and nofMonks
C33_BusyCounterCountsWorkers ==
    /\ amountOfMonksBusy = Cardinality(Counted)
    /\ 0 <= amountOfMonksBusy
    /\ amountOfMonksBusy <= nofMonks

\* C32: every slot a growth of the task buffer adds starts out READY, and every slot
\* that is OPEN or BUSY holds the function and the context a dispatch call wrote
C32_WorkersRunDispatchedFunctions ==
    [][/\ nofTasks' # nofTasks =>
             \A i \in nofTasks..(nofTasks' - 1) : task'[i].state = TS_READY
       /\ \A i \in 0..(nofTasks' - 1) :
             task'[i].state \in {TS_OPEN, TS_BUSY} =>
                 /\ task'[i].context \in Jobs
                 /\ task'[i].func = JobFunc(task'[i].context)]_vars

\* C35: ptreaty_flag_hoisted is a pure test: the step that evaluates it leaves the
\* request mutex of the channel as it was, so a request that was free stays free
\* for a later ptreaty_hoist_flag
C35_FlagTestIsPure ==
    [][(tpc["nx"] = "nx_try" /\ tpc'["nx"] # "nx_try") => request' = request]_vars

\* C36: whenever tcpip_send_packets pops the outbox it finds a message: the pops of
\* send tasks never outnumber the completed pushes, no pop of a send task returned
\* NULL, and no send task went on with a NULL msg
C36_SendPopFindsMessage ==
    /\ outPops <= outPushes
    /\ emptyPops = 0
    /\ ~sendSegv

\* C31: after poseta_func1_if_func0(A, B), with A and B each dispatched once in either
\* order on a pool of any initial size, both real functions eventually run and both
\* wrapper tasks complete
C31_PairCompletes == <>(ppc["A"] = "done" /\ ppc["B"] = "done")

====
